---- MODULE Spec2Model ----
(***************************************************************************)
(* Header chain store and reorg engine of electrum-koto                    *)
(* (src/electrum/blockchain.py).                                           *)
(*                                                                         *)
(* The state is the process-wide registry `blockchains`, the Blockchain    *)
(* objects (an arena indexed by object number; `parent` is an object       *)
(* number, 0 for None), the header files on disk keyed by path, and the    *)
(* chainwork cache.  Every public operation is one atomic action; the      *)
(* operations are written as operators over a "world" record               *)
(*    [chains, files, blockchains, cache]                                  *)
(* and return the world they leave behind together with the exception      *)
(* they raised, if any.                                                    *)
(*                                                                         *)
(* Bytes.  A file is a sequence of blocks of BLOCK = gcd(80, 112) = 16     *)
(* bytes; every offset and length the code computes is written in bytes,   *)
(* as in the code, and divided by BLOCK only where the file is touched.    *)
(* Block 0 is sixteen zero bytes.  The k-th block of a serialized header   *)
(* is Code(header) * 8 + k, which is never 0.                              *)
(*                                                                         *)
(* Hashes.  sha256d numbers byte strings: 0 is the all-zero hash, 1 the    *)
(* hash of the empty string, an even number >= 4 the hash of a serialized  *)
(* header (one number a header), an odd number >= 3 the hash of any other  *)
(* string (a digest of its blocks).                                        *)
(***************************************************************************)
EXTENDS Integers, Sequences, FiniteSets, TLC

(***************************************************************************)
(* Program constants                                                       *)
(***************************************************************************)
HEADER_SIZE == 80
HEADER_SIZE_SAPLING == 112
nAverageBlocks == 17
nMedianTimeSpan == 11
nPowMaxAdjustDown == 32
nPowMaxAdjustUp == 16

\* constants.net.TESTNET: the network the program was started for
VARIABLE testnet
TESTNET == testnet

(***************************************************************************)
(* Bounds of the model.  CHUNK stands for the retarget period (2016 in     *)
(* the code), WORD for the width of a hash (256 in the code);              *)
(* NumCheckpoints is len(constants.net.CHECKPOINTS) and SAPLING_HEIGHT is  *)
(* constants.net.SAPLING_HEIGHT, both configuration.                       *)
(***************************************************************************)
CHUNK == 2
WORD == 24
NumCheckpoints == 1
SAPLING_HEIGHT == 3
MaxHeight == 4
NTags == 2
MaxChains == 3
MaxOps == 4

RECURSIVE GCD(_, _)
GCD(a, b) == IF b = 0 THEN a ELSE GCD(b, a % b)
BLOCK == GCD(HEADER_SIZE, HEADER_SIZE_SAPLING)

RECURSIVE Pow2(_)
Pow2(n) == IF n <= 0 THEN 1 ELSE 2 * Pow2(n - 1)
TWO_WORD == Pow2(WORD)
\* MAX_TARGET is all ones below 13 zero bits in the code; here it is all ones
\* below 8 zero bits, so that the targets of three-byte compact values, which
\* start at 0x8000, lie on both sides of it
MAX_TARGET == Pow2(WORD - 8) - 1

Max(a, b) == IF a >= b THEN a ELSE b
Min(a, b) == IF a <= b THEN a ELSE b

(***************************************************************************)
(* Sentinels.  None is Python's None for a header; Raised stands for an    *)
(* exception raised in place of a header; Garbled is a header parsed from  *)
(* bytes that no header of the universe serializes to, known by the hash   *)
(* of the bytes serialize_header gives back for it.  NoneHash is None for  *)
(* a hash (the main chain's prev_hash); MISSING and RAISED stand for a     *)
(* raised MissingHeader and for any other raised exception.                *)
(***************************************************************************)
None == [version |-> -1, prev_block_hash |-> -1, merkle_root |-> -1,
         timestamp |-> -1, bits |-> -1, nonce |-> -1,
         finalsapling_root |-> -1, block_height |-> -1]
Raised == [version |-> -2, prev_block_hash |-> -2, merkle_root |-> -2,
           timestamp |-> -2, bits |-> -2, nonce |-> -2,
           finalsapling_root |-> -2, block_height |-> -2]
Garbled(digest, height) ==
    [version |-> -3, prev_block_hash |-> -3, merkle_root |-> digest,
     timestamp |-> -3, bits |-> -3, nonce |-> -3,
     finalsapling_root |-> -3, block_height |-> height]
NoneHash == 0 - 1
MISSING == 0 - 2
RAISED == 0 - 3
Absent == 0 - 1
ZERO_HASH == 0
HASH_EMPTY == ZERO_HASH + 1

(***************************************************************************)
(* The header universe.  Headers of the model differ in version,           *)
(* prev_block_hash and merkle_root; timestamp, bits, nonce and             *)
(* finalsapling_root carry fixed values.  bits 0x03008000 is the compact   *)
(* form of the target 0x8000.                                              *)
(***************************************************************************)
FixedTimestamp == 0
FixedBits == 50364416
FixedNonce == 0
FixedRoot == 0

Header(version, prev, merkle, height) ==
    [version |-> version, prev_block_hash |-> prev, merkle_root |-> merkle,
     timestamp |-> FixedTimestamp, bits |-> FixedBits, nonce |-> FixedNonce,
     finalsapling_root |-> IF version >= 5 THEN FixedRoot ELSE Absent,
     block_height |-> height]

\* version of a well-formed header at a height (spec section 3)
VersionAt(height) == IF height < SAPLING_HEIGHT THEN 4 ELSE 5

(***************************************************************************)
(* Header codec                                                            *)
(***************************************************************************)
Code(h) == 1 + (h.version - 4) + 2 * (h.merkle_root + NTags * h.prev_block_hash)

Blocks(code, n) == [k \in 1..n |-> code * 8 + (k - 1)]

serialize_header(h) ==
    IF h.version >= 5
    THEN Blocks(Code(h), HEADER_SIZE_SAPLING \div BLOCK)
    ELSE Blocks(Code(h), HEADER_SIZE \div BLOCK)

\* the first n blocks of s are the first n blocks of one serialized header
IsImagePrefix(s, n) ==
    /\ Len(s) >= n
    /\ s[1] >= 8
    /\ s[1] % 8 = 0
    /\ \A k \in 1..n : s[k] = s[1] + (k - 1)

CodeVersion(c) == 4 + ((c - 1) % 2)
CodeMerkle(c) == ((c - 1) \div 2) % NTags
CodePrev(c) == ((c - 1) \div 2) \div NTags

\* s is exactly the serialization of a header
IsImage(s) ==
    /\ Len(s) > 0
    /\ IsImagePrefix(s, Len(s))
    /\ Len(s) * BLOCK = (IF CodeVersion(s[1] \div 8) >= 5
                         THEN HEADER_SIZE_SAPLING ELSE HEADER_SIZE)

RECURSIVE Digest(_, _)
Digest(s, n) == IF n = 0 THEN 7 ELSE (Digest(s, n - 1) * 31 + s[n] + 1) % 1024

sha256d(s) ==
    IF Len(s) = 0 THEN HASH_EMPTY
    ELSE IF IsImage(s) THEN 2 + 2 * (s[1] \div 8)
    ELSE 3 + 2 * Digest(s, Len(s))

\* the bytes serialize_header writes for the fields parsed from s: all of s
\* when the version field is 5 or more, else its first HEADER_SIZE bytes
reserialized(s) ==
    IF s[1] >= 8 /\ CodeVersion(s[1] \div 8) >= 5 THEN s
    ELSE SubSeq(s, 1, HEADER_SIZE \div BLOCK)

deserialize_header(s, height) ==
    IF Len(s) = 0 THEN Raised
    ELSE IF height < SAPLING_HEIGHT /\ Len(s) * BLOCK # HEADER_SIZE THEN Raised
    ELSE IF height >= SAPLING_HEIGHT /\ Len(s) * BLOCK # HEADER_SIZE_SAPLING THEN Raised
    ELSE IF ~IsImagePrefix(s, HEADER_SIZE \div BLOCK)
         THEN Garbled(sha256d(reserialized(s)), height)
    ELSE IF CodeVersion(s[1] \div 8) >= 5
            /\ ~IsImagePrefix(s, HEADER_SIZE_SAPLING \div BLOCK)
         THEN Garbled(sha256d(reserialized(s)), height)
    ELSE Header(CodeVersion(s[1] \div 8), CodePrev(s[1] \div 8),
                CodeMerkle(s[1] \div 8), height)

hash_raw_header(s) == sha256d(s)

hash_header(header) ==
    IF header = None THEN ZERO_HASH
    ELSE IF header.version < 0 THEN header.merkle_root
    ELSE hash_raw_header(serialize_header(
             IF header.prev_block_hash = NoneHash
             THEN [header EXCEPT !.prev_block_hash = ZERO_HASH] ELSE header))

(***************************************************************************)
(* Configuration (constants.net): the genesis id and the checkpoints.      *)
(* The checkpointed chain is the chain of merkle root 0 from genesis.      *)
(***************************************************************************)
RECURSIVE CanonHeader(_)
CanonHeader(height) ==
    Header(VersionAt(height),
           IF height = 0 THEN ZERO_HASH ELSE hash_header(CanonHeader(height - 1)),
           0, height)

GENESIS == hash_header(CanonHeader(0))
CHECKPOINTS ==
    [i \in 0..(NumCheckpoints - 1) |->
        <<hash_header(CanonHeader((i + 1) * CHUNK - 1)), MAX_TARGET>>]
max_checkpoint == NumCheckpoints * CHUNK - 1

(***************************************************************************)
(* Files and Blockchain objects of a world w                               *)
(***************************************************************************)
Zeros(n) == [k \in 1..n |-> 0]

MainPath == <<0, NoneHash, NoneHash>>

\* Blockchain.path: 'blockchain_headers' for the main chain, else
\* forks/fork2_{forkpoint}_{prev_hash}_{first_hash}
path(w, b) ==
    IF w.chains[b].parent = 0 THEN MainPath
    ELSE <<w.chains[b].forkpoint, w.chains[b].prev_hash, w.chains[b].forkpoint_hash>>

exists(w, p) == p \in DOMAIN w.files
getsize(w, p) == IF p \in DOMAIN w.files THEN Len(w.files[p]) * BLOCK ELSE 0

\* f.seek(offset); f.read(n) on the byte string f
fread(f, offset, n) ==
    SubSeq(f, offset \div BLOCK + 1, Min(Len(f), (offset + n) \div BLOCK))

size(w, b) == w.chains[b].size
height(w, b) == w.chains[b].forkpoint + w.chains[b].size - 1
get_id(w, b) == w.chains[b].forkpoint_hash

\* the number of headers update_size finds in a file of sz bytes
size_of(sz, fp) ==
    IF SAPLING_HEIGHT <= fp THEN sz \div HEADER_SIZE_SAPLING
    ELSE IF sz <= HEADER_SIZE * (SAPLING_HEIGHT - fp) THEN sz \div HEADER_SIZE
    ELSE (SAPLING_HEIGHT - fp)
         + (sz - (SAPLING_HEIGHT - fp) * HEADER_SIZE) \div HEADER_SIZE_SAPLING

update_size(w, b) ==
    [w EXCEPT !.chains[b].size = size_of(getsize(w, path(w, b)), w.chains[b].forkpoint)]

\* read_offset with every record from the forkpoint on taken at the size of
\* the record read
read_offset_flat(fp, h) ==
    IF h < SAPLING_HEIGHT THEN (h - fp) * HEADER_SIZE ELSE (h - fp) * HEADER_SIZE_SAPLING

\* the byte offset read_header seeks to, and the record size it reads
read_offset(fp, h) ==
    IF h < SAPLING_HEIGHT THEN (h - fp) * HEADER_SIZE
    ELSE IF fp > SAPLING_HEIGHT THEN (h - fp) * HEADER_SIZE_SAPLING
    ELSE (h - SAPLING_HEIGHT) * HEADER_SIZE_SAPLING + (SAPLING_HEIGHT - fp) * HEADER_SIZE
read_size(h) == IF h < SAPLING_HEIGHT THEN HEADER_SIZE ELSE HEADER_SIZE_SAPLING

\* parse_record without "if h == bytes([0])*size: return None"
parse_record_nonzero(rec, h) ==
    IF Len(rec) * BLOCK < read_size(h) THEN Raised ELSE deserialize_header(rec, h)

\* what read_header makes of the bytes it read
parse_record(rec, h) ==
    IF Len(rec) * BLOCK < read_size(h) THEN Raised
    ELSE IF rec = Zeros(Len(rec)) THEN None
    ELSE deserialize_header(rec, h)

RECURSIVE read_header(_, _, _)
read_header(w, b, h) ==
    IF h < 0 THEN None
    ELSE IF h < w.chains[b].forkpoint
         THEN IF w.chains[b].parent = 0 THEN Raised
              ELSE read_header(w, w.chains[b].parent, h)
    ELSE IF h > height(w, b) THEN None
    ELSE IF ~exists(w, path(w, b)) THEN Raised
    ELSE parse_record(fread(w.files[path(w, b)], read_offset(w.chains[b].forkpoint, h),
                            read_size(h)), h)

is_height_checkpoint(h) == h <= max_checkpoint /\ (h + 1) % CHUNK = 0

\* the hash of a header read, MISSING for None
hash_or_missing(header) ==
    IF header = None THEN MISSING
    ELSE IF header = Raised THEN RAISED
    ELSE hash_header(header)

\* get_hash without the checkpoints
get_hash_read(w, b, h) ==
    IF h = -1 THEN ZERO_HASH
    ELSE IF h = 0 THEN GENESIS
    ELSE hash_or_missing(read_header(w, b, h))

get_hash(w, b, h) ==
    IF h = -1 THEN ZERO_HASH
    ELSE IF h = 0 THEN GENESIS
    ELSE IF is_height_checkpoint(h) THEN CHECKPOINTS[h \div CHUNK][1]
    ELSE hash_or_missing(read_header(w, b, h))

check_hash(w, b, h, header_hash) == header_hash = get_hash(w, b, h)

(***************************************************************************)
(* Targets and work                                                        *)
(***************************************************************************)
WarmUp == 28
SkipWindow == 24

EmptyDict == [k \in {} |-> None]

\* chain.get(h), else self.read_header(h)
chain_or_read(w, b, h, chain) ==
    IF h \in DOMAIN chain THEN chain[h] ELSE read_header(w, b, h)

bits_to_target(bits) ==
    IF ~(3 <= ((bits \div Pow2(24)) % 256) /\ ((bits \div Pow2(24)) % 256) <= 31) THEN RAISED
    ELSE IF ~(32768 <= bits % Pow2(24) /\ bits % Pow2(24) <= 8388607) THEN RAISED
    ELSE (bits % Pow2(24)) * Pow2(8 * (((bits \div Pow2(24)) % 256) - 3))

RECURSIVE NBytes(_)
NBytes(t) == IF t < 256 THEN 1 ELSE 1 + NBytes(t \div 256)

bits_of(n, base) ==
    IF base >= 8388608 THEN (n + 1) * Pow2(24) + base \div 256 ELSE n * Pow2(24) + base

\* the hex string c keeps the low 31 bytes of the target, stripped of leading
\* zero bytes down to three bytes; targets here are below 2^248
target_to_bits(target) ==
    bits_of(Max(3, NBytes(target)), target \div Pow2(8 * (Max(3, NBytes(target)) - 3)))

\* A Python integer of up to 256 bits as the 32 bytes "%064x" prints, most
\* significant first: bitsBase << (8 * n)
shl_bytes(bitsBase, n) ==
    Zeros(29 - n) \o <<bitsBase \div 65536, (bitsBase \div 256) % 256, bitsBase % 256>>
                 \o Zeros(n)

\* the 32 bytes of a target below 2^31
to_bytes(target) ==
    Zeros(28) \o <<target \div 16777216, (target \div 65536) % 256,
                   (target \div 256) % 256, target % 256>>

\* bits_to_target with the target as its 32 bytes; no bytes for the exceptions
bits_to_target_bytes(bits) ==
    IF ~(3 <= ((bits \div Pow2(24)) % 256) /\ ((bits \div Pow2(24)) % 256) <= 31) THEN <<>>
    ELSE IF ~(32768 <= bits % Pow2(24) /\ bits % Pow2(24) <= 8388607) THEN <<>>
    ELSE shl_bytes(bits % Pow2(24), ((bits \div Pow2(24)) % 256) - 3)

RECURSIVE strip_zero_bytes(_)
\* while c[:2] == '00' and len(c) > 6: c = c[2:]
strip_zero_bytes(c) ==
    IF Len(c) > 3 /\ c[1] = 0 THEN strip_zero_bytes(Tail(c)) ELSE c

\* bitsN, bitsBase after "if bitsBase >= 0x800000", as bitsN << 24 | bitsBase
bits_of_bytes(c) ==
    bits_of(Len(c), c[1] * 65536 + c[2] * 256 + c[3])

\* target_to_bits without the step "if bitsBase >= 0x800000"
target_to_bits_plain(t32) ==
    Len(strip_zero_bytes(Tail(t32))) * Pow2(24)
        + strip_zero_bytes(Tail(t32))[1] * 65536 + strip_zero_bytes(Tail(t32))[2] * 256
        + strip_zero_bytes(Tail(t32))[3]

\* target_to_bits on the 32 bytes of the target: c = ("%064x" % target)[2:]
target_to_bits_bytes(t32) == bits_of_bytes(strip_zero_bytes(Tail(t32)))

RECURSIVE Insert(_, _)
Insert(x, s) ==
    IF Len(s) = 0 THEN <<x>>
    ELSE IF x <= Head(s) THEN <<x>> \o s
    ELSE <<Head(s)>> \o Insert(x, Tail(s))

RECURSIVE median_scan(_, _, _, _, _, _)
median_take(w, b, chain, pindex, i, pmedian, r) ==
    IF r = None \/ r = Raised THEN RAISED
    ELSE median_scan(w, b, chain, pindex - 1, i + 1, Insert(r.timestamp, pmedian))

\* the loop of get_median_timestamp; RAISED is an exception
median_scan(w, b, chain, pindex, i, pmedian) ==
    IF i < nMedianTimeSpan /\ pindex # 0
    THEN median_take(w, b, chain, pindex, i, pmedian, chain_or_read(w, b, pindex, chain))
    ELSE IF Len(pmedian) = 0 THEN RAISED
    ELSE pmedian[i \div 2 + 1]

get_median_timestamp(w, b, h, chain) == median_scan(w, b, chain, h, 0, <<>>)

RECURSIVE sum_targets(_, _, _, _, _, _, _)
sum_next(w, b, chain, h, CountBlocks, bnOldAvg, bnTmp, nxt) ==
    IF bnTmp = RAISED \/ nxt = Raised THEN RAISED
    ELSE sum_targets(w, b, chain, h, CountBlocks, nxt, bnOldAvg + bnTmp)

\* the for loop of get_target_koto: bnOldAvg, RAISED on an exception
sum_targets(w, b, chain, h, CountBlocks, BlockReading, bnOldAvg) ==
    IF CountBlocks = nAverageBlocks THEN bnOldAvg
    ELSE IF BlockReading = None \/ BlockReading = Raised THEN RAISED
    ELSE sum_next(w, b, chain, h, CountBlocks + 1, bnOldAvg,
                  bits_to_target(BlockReading.bits),
                  chain_or_read(w, b, (h - 1) - (CountBlocks + 1), chain))

nTargetTimespan == nAverageBlocks * 60
nMinActualTimespan == (nTargetTimespan * (100 - nPowMaxAdjustUp)) \div 100
nMaxActualTimespan == (nTargetTimespan * (100 + nPowMaxAdjustDown)) \div 100

\* damped without "fix": the quotient rounded down
damped_floor(nActualTimespan) ==
    Min(Max(nTargetTimespan + (nActualTimespan - nTargetTimespan) \div 4, nMinActualTimespan),
        nMaxActualTimespan)

\* nActualTimespan after damping and clamping
damped(nActualTimespan) ==
    Min(Max(nTargetTimespan + (nActualTimespan - nTargetTimespan) \div 4
              + (IF nActualTimespan - nTargetTimespan < 0
                    /\ (nActualTimespan - nTargetTimespan) % 4 # 0 THEN 1 ELSE 0),
            nMinActualTimespan),
        nMaxActualTimespan)

\* retarget with the quotient by nTargetTimespan rounded up
retarget_ceil(bnOldAvg, m1, m2) ==
    IF bnOldAvg = RAISED \/ m1 = RAISED \/ m2 = RAISED THEN RAISED
    ELSE Min((((bnOldAvg \div nAverageBlocks) + nTargetTimespan - 1) \div nTargetTimespan)
               * damped(m1 - m2),
             MAX_TARGET)

retarget(bnOldAvg, m1, m2) ==
    IF bnOldAvg = RAISED \/ m1 = RAISED \/ m2 = RAISED THEN RAISED
    ELSE Min(((bnOldAvg \div nAverageBlocks) \div nTargetTimespan) * damped(m1 - m2),
             MAX_TARGET)

get_target_koto_from(w, b, h, chain, lastheader) ==
    IF lastheader = Raised THEN RAISED
    ELSE IF h < NumCheckpoints * CHUNK + WarmUp THEN 0
    ELSE IF lastheader = None \/ h - 1 <= nAverageBlocks THEN MAX_TARGET
    ELSE retarget(sum_targets(w, b, chain, h, 0, lastheader, 0),
                  get_median_timestamp(w, b, h - 1, chain),
                  get_median_timestamp(w, b, (h - 1) - nAverageBlocks, chain))

get_target_koto(w, b, h, chain) ==
    get_target_koto_from(w, b, h, chain, chain_or_read(w, b, h - 1, chain))

\* get_target without the branch of the checkpointed target
get_target_no_checkpoint(w, b, h, chain) ==
    IF TESTNET THEN 0
    ELSE IF h = -1 THEN MAX_TARGET
    ELSE IF h \div CHUNK < NumCheckpoints /\ h % CHUNK # 0 THEN 0
    ELSE get_target_koto(w, b, h, chain)

get_target(w, b, h, chain) ==
    IF TESTNET THEN 0
    ELSE IF h = -1 THEN MAX_TARGET
    ELSE IF h \div CHUNK < NumCheckpoints /\ h % CHUNK = 0 THEN CHECKPOINTS[h \div CHUNK][2]
    ELSE IF h \div CHUNK < NumCheckpoints /\ h % CHUNK # 0 THEN 0
    ELSE get_target_koto(w, b, h, chain)

work_of(target) ==
    IF target = RAISED THEN RAISED ELSE ((TWO_WORD - target - 1) \div (target + 1)) + 1

chainwork_of_header_at_height(w, b, h) == work_of(get_target(w, b, h, EmptyDict))

\* the yescrypt value of a header: mining is abstracted, the nonce names the
\* value the hash takes
getPoWHash(header) == header.nonce

\* verify_header without "if (height == 20 or height == 22 or height == 26)"
verify_header_no_bypass(header, prev_hash, target, expected_header_hash) ==
    IF expected_header_hash # NoneHash /\ expected_header_hash # hash_header(header)
    THEN FALSE
    ELSE IF prev_hash # header.prev_block_hash THEN FALSE
    ELSE IF (header.block_height % CHUNK # 0 /\ header.block_height \div CHUNK < NumCheckpoints)
            \/ (header.block_height >= NumCheckpoints * CHUNK
                /\ header.block_height <= NumCheckpoints * CHUNK + SkipWindow)
         THEN TRUE
    ELSE IF TESTNET THEN TRUE
    ELSE IF target_to_bits(target) # header.bits THEN FALSE
    ELSE getPoWHash(header) <= target

\* verify_header without "if block_hash_as_num > target"
verify_header_no_pow(header, prev_hash, target, expected_header_hash) ==
    IF header.block_height = 20 \/ header.block_height = 22 \/ header.block_height = 26
    THEN TRUE
    ELSE IF expected_header_hash # NoneHash /\ expected_header_hash # hash_header(header)
         THEN FALSE
    ELSE IF prev_hash # header.prev_block_hash THEN FALSE
    ELSE IF (header.block_height % CHUNK # 0 /\ header.block_height \div CHUNK < NumCheckpoints)
            \/ (header.block_height >= NumCheckpoints * CHUNK
                /\ header.block_height <= NumCheckpoints * CHUNK + SkipWindow)
         THEN TRUE
    ELSE IF TESTNET THEN TRUE
    ELSE target_to_bits(target) = header.bits

\* TRUE when verify_header returns, FALSE when it raises
verify_header(header, prev_hash, target, expected_header_hash) ==
    IF header.block_height = 20 \/ header.block_height = 22 \/ header.block_height = 26
    THEN TRUE
    ELSE IF expected_header_hash # NoneHash /\ expected_header_hash # hash_header(header)
         THEN FALSE
    ELSE IF prev_hash # header.prev_block_hash THEN FALSE
    ELSE IF (header.block_height % CHUNK # 0 /\ header.block_height \div CHUNK < NumCheckpoints)
            \/ (header.block_height >= NumCheckpoints * CHUNK
                /\ header.block_height <= NumCheckpoints * CHUNK + SkipWindow)
         THEN TRUE
    ELSE IF TESTNET THEN TRUE
    ELSE IF target_to_bits(target) # header.bits THEN FALSE
    ELSE getPoWHash(header) <= target

\* a negative target stands for get_target raising: a MissingHeader makes
\* can_connect return False, any other exception leaves can_connect; the
\* caller is given no True in either case
can_connect_target(header, prev_hash, target) ==
    IF target < 0 THEN FALSE ELSE verify_header(header, prev_hash, target, NoneHash)

can_connect_prev(w, b, header, prev_hash) ==
    IF prev_hash < 0 THEN FALSE
    ELSE IF prev_hash # header.prev_block_hash THEN FALSE
    ELSE can_connect_target(header, prev_hash,
                            get_target(w, b, header.block_height,
                                       (header.block_height :> header)))

can_connect(w, b, header, check_height) ==
    IF header = None THEN FALSE
    ELSE IF check_height /\ height(w, b) # header.block_height - 1 THEN FALSE
    ELSE IF header.block_height = 0 THEN hash_header(header) = GENESIS
    ELSE can_connect_prev(w, b, header, get_hash(w, b, header.block_height - 1))

(***************************************************************************)
(* Operations that change the world.  Each returns [w, err, swaps]: the    *)
(* world it leaves, the exception it raised ("" for none) and the number   *)
(* of swap steps it made.                                                  *)
(***************************************************************************)
Ok(w) == [w |-> w, err |-> "", swaps |-> 0]
Fail(w, e) == [w |-> w, err |-> e, swaps |-> 0]

\* the file after write(): truncated at off when asked and off is not its end,
\* zero-filled up to off, data written at off
written(f, data, off, truncate) ==
    SubSeq(f, 1, Min(off, Len(f)))
    \o Zeros(Max(0, off - Len(f)))
    \o data
    \o (IF truncate THEN <<>> ELSE SubSeq(f, off + Len(data) + 1, Len(f)))

\* write that never truncates
write_keep(w, b, data, offset, truncate) ==
    IF ~exists(w, path(w, b)) THEN Fail(w, "FileNotFoundError")
    ELSE IF offset < 0 THEN Fail(w, "OSError")
    ELSE Ok(update_size(
              [w EXCEPT !.files[path(w, b)] =
                  written(w.files[path(w, b)], data, offset \div BLOCK, FALSE)], b))

\* Blockchain.write
write(w, b, data, offset, truncate) ==
    IF ~exists(w, path(w, b)) THEN Fail(w, "FileNotFoundError")
    ELSE IF offset < 0 THEN Fail(w, "OSError")
    ELSE Ok(update_size(
              [w EXCEPT !.files[path(w, b)] =
                  written(w.files[path(w, b)], data, offset \div BLOCK,
                          truncate /\ offset # Len(w.files[path(w, b)]) * BLOCK)], b))

(***************************************************************************)
(* get_chainwork: returns [work, cache, err]                               *)
(***************************************************************************)
RECURSIVE find_cached(_, _, _)
find_probe(w, b, cached_height, hh) ==
    IF hh < 0 THEN hh
    ELSE IF hh \in DOMAIN w.cache THEN cached_height
    ELSE IF cached_height <= -1 THEN cached_height
    ELSE find_cached(w, b, cached_height - CHUNK)

\* the first loop: the height it stops at, or a negative error below -1
find_cached(w, b, cached_height) ==
    find_probe(w, b, cached_height, get_hash(w, b, cached_height))

RECURSIVE sum_work(_, _, _, _, _, _)
sum_add(w, b, hgt, last_retarget, running_total, cache, hh) ==
    IF hgt % CHUNK # 0 THEN sum_work(w, b, hgt, last_retarget, running_total, cache)
    ELSE IF hh < 0 THEN [work |-> 0, cache |-> cache, err |-> "MissingHeader"]
    ELSE sum_work(w, b, hgt, last_retarget, running_total,
                  [k \in DOMAIN cache \cup {hh} |->
                      IF k = hh THEN running_total ELSE cache[k]])

sum_header(w, b, hgt, last_retarget, running_total, cache, work) ==
    IF work < 0 THEN [work |-> 0, cache |-> cache, err |-> "Exception"]
    ELSE sum_add(w, b, hgt, last_retarget, running_total + work, cache,
                 get_hash(w, b, hgt))

\* the second loop
sum_work(w, b, cached_height, last_retarget, running_total, cache) ==
    IF ~(cached_height < last_retarget)
    THEN [work |-> running_total, cache |-> cache, err |-> ""]
    ELSE sum_header(w, b, cached_height + 1, last_retarget, running_total, cache,
                    chainwork_of_header_at_height(w, b, cached_height + 1))

chainwork_from(w, b, cached_height, last_retarget) ==
    IF cached_height < -1
    THEN [work |-> 0, cache |-> w.cache, err |-> "MissingHeader"]
    ELSE sum_work(w, b, cached_height, last_retarget,
                  w.cache[get_hash(w, b, cached_height)], w.cache)

get_chainwork_at(w, b, hgt) ==
    IF TESTNET THEN [work |-> hgt, cache |-> w.cache, err |-> ""]
    ELSE chainwork_from(w, b, find_cached(w, b, (hgt \div CHUNK) * CHUNK - 1),
                        (hgt \div CHUNK) * CHUNK - 1)

\* get_chainwork(height=None)
get_chainwork(w, b) == get_chainwork_at(w, b, Max(0, height(w, b)))

(***************************************************************************)
(* _swap_with_parent: returns [w, swapped, err]                            *)
(***************************************************************************)
\* the offset in the parent's file and the number of bytes read from it
swap_offset(forkpoint, pfork) ==
    IF forkpoint > SAPLING_HEIGHT
    THEN IF SAPLING_HEIGHT > pfork
         THEN (forkpoint - SAPLING_HEIGHT) * HEADER_SIZE_SAPLING
              + (SAPLING_HEIGHT - pfork) * HEADER_SIZE
         ELSE (forkpoint - SAPLING_HEIGHT) * HEADER_SIZE_SAPLING
              + (SAPLING_HEIGHT - pfork) * HEADER_SIZE_SAPLING
    ELSE (forkpoint - pfork) * HEADER_SIZE

swap_length(forkpoint, pheight) ==
    IF forkpoint > SAPLING_HEIGHT THEN (pheight - forkpoint + 1) * HEADER_SIZE_SAPLING
    ELSE IF SAPLING_HEIGHT > pheight THEN (pheight - forkpoint + 1) * HEADER_SIZE
    ELSE (pheight - SAPLING_HEIGHT + 1) * HEADER_SIZE_SAPLING
         + (SAPLING_HEIGHT - forkpoint) * HEADER_SIZE

\* os.rename(src, dst): dst is replaced
rename(files, src, dst) ==
    [p \in (DOMAIN files \ {src}) \cup {dst} |-> IF p = dst THEN files[src] ELSE files[p]]

\* rekey without "blockchains[self.get_id()] = self": the registry a swap
\* would leave if it did not enter the child under its new id
rekey_without_child(reg, a, b, k1, v1, k2, v2) ==
    [k \in (DOMAIN reg \ {a, b}) \cup {k2} |-> IF k = k2 THEN v2 ELSE reg[k]]

\* blockchains.pop(a); blockchains.pop(b); blockchains[k1] = v1; blockchains[k2] = v2
rekey(reg, a, b, k1, v1, k2, v2) ==
    [k \in (DOMAIN reg \ {a, b}) \cup {k1, k2} |->
        IF k = k2 THEN v2 ELSE IF k = k1 THEN v1 ELSE reg[k]]

\* "update pointers"
swap_pointers(w, b, parent, child_old_id, parent_old_id) ==
    [w EXCEPT !.blockchains =
        rekey(w.blockchains, child_old_id, parent_old_id,
              get_id(w, b), b, get_id(w, parent), parent)]

\* "parent's new name", then both update_size calls
swap_names(w, b, parent, child_old_name) ==
    update_size(update_size(
        [w EXCEPT !.files = rename(w.files, child_old_name, path(w, parent))], b), parent)

\* "swap parameters" without the exchange of _prev_hash
swap_parameters_prev_kept(w, b, parent, first) ==
    [w EXCEPT
       !.chains[b] = [@ EXCEPT !.parent = w.chains[parent].parent,
                               !.forkpoint = w.chains[parent].forkpoint,
                               !.forkpoint_hash = w.chains[parent].forkpoint_hash],
       !.chains[parent] = [@ EXCEPT !.parent = b,
                                    !.forkpoint = w.chains[b].forkpoint,
                                    !.forkpoint_hash = hash_raw_header(first)]]

\* "swap parameters"; first is parent_data[:HEADER_SIZE] or [:HEADER_SIZE_SAPLING]
swap_parameters(w, b, parent, first) ==
    [w EXCEPT
       !.chains[b] = [@ EXCEPT !.parent = w.chains[parent].parent,
                               !.forkpoint = w.chains[parent].forkpoint,
                               !.forkpoint_hash = w.chains[parent].forkpoint_hash,
                               !.prev_hash = w.chains[parent].prev_hash],
       !.chains[parent] = [@ EXCEPT !.parent = b,
                                    !.forkpoint = w.chains[b].forkpoint,
                                    !.forkpoint_hash = hash_raw_header(first),
                                    !.prev_hash = w.chains[b].prev_hash]]

first_header(parent_data, forkpoint) ==
    IF forkpoint < SAPLING_HEIGHT
    THEN SubSeq(parent_data, 1, Min(Len(parent_data), HEADER_SIZE \div BLOCK))
    ELSE SubSeq(parent_data, 1, Min(Len(parent_data), HEADER_SIZE_SAPLING \div BLOCK))

\* "swap files": self.write(parent_data, 0); parent.write(my_data, offset)
swap_files(w, b, parent, my_data, parent_data, offset) ==
    write(write(w, b, parent_data, 0, TRUE).w, parent, my_data, offset, TRUE).w

swap_data(w, b, parent, child_old_name, my_data, parent_data, offset) ==
    Ok(swap_pointers(
         swap_names(
           swap_parameters(swap_files(w, b, parent, my_data, parent_data, offset),
                           b, parent, first_header(parent_data, w.chains[b].forkpoint)),
           b, parent, child_old_name),
         b, parent, get_id(w, b), get_id(w, parent)))

swap_read(w, b, parent, offset, length) ==
    IF ~exists(w, path(w, b)) THEN Fail(w, "FileNotFoundError")
    ELSE IF ~exists(w, path(w, parent)) THEN Fail(w, "FileNotFoundError")
    ELSE IF offset < 0 THEN Fail(w, "OSError")
    ELSE IF length < 0 THEN Fail(w, "ValueError")
    ELSE swap_data(w, b, parent, path(w, b), w.files[path(w, b)],
                   fread(w.files[path(w, parent)], offset, length), offset)

\* the swap proper, from the print_error on
do_swap(w, b) ==
    swap_read(w, b, w.chains[b].parent,
              swap_offset(w.chains[b].forkpoint, w.chains[w.chains[b].parent].forkpoint),
              swap_length(w.chains[b].forkpoint, height(w, w.chains[b].parent)))

swap_outcome(r) == [w |-> r.w, swapped |-> r.err = "", err |-> r.err]

with_cache(w, cw) == [w EXCEPT !.cache = cw.cache]

\* self.parent.get_chainwork() >= self.get_chainwork(), given both results
swap_compare(w, b, pw, cw) ==
    IF cw.err # "" THEN [w |-> with_cache(w, cw), swapped |-> FALSE, err |-> cw.err]
    ELSE IF pw.work >= cw.work
         THEN [w |-> with_cache(w, cw), swapped |-> FALSE, err |-> ""]
    ELSE swap_outcome(do_swap(with_cache(w, cw), b))

swap_child_work(w, b, pw) == swap_compare(w, b, pw, get_chainwork(w, b))

swap_parent_work(w, b, pw) ==
    IF pw.err # "" THEN [w |-> with_cache(w, pw), swapped |-> FALSE, err |-> pw.err]
    ELSE swap_child_work(with_cache(w, pw), b, pw)

swap_step(w, b) ==
    IF w.chains[b].parent = 0 THEN [w |-> w, swapped |-> FALSE, err |-> ""]
    ELSE swap_parent_work(w, b, get_chainwork(w, w.chains[b].parent))

(***************************************************************************)
(* swap_with_parent: returns [w, err, swaps]                               *)
(***************************************************************************)
RECURSIVE swap_loop(_, _, _)
\* swap_next with "cnt >= len(blockchains)" for "cnt > len(blockchains)"
swap_next_eager(b, cnt, r) ==
    IF r.err # "" THEN [w |-> r.w, err |-> r.err, swaps |-> cnt]
    ELSE IF ~r.swapped THEN [w |-> r.w, err |-> "", swaps |-> cnt]
    ELSE IF cnt + 1 >= Cardinality(DOMAIN r.w.blockchains)
         THEN [w |-> r.w, err |-> "swapping fork with parent too many times",
               swaps |-> cnt + 1]
    ELSE swap_loop(r.w, b, cnt + 1)

\* one turn of the loop of swap_with_parent, given the result r of
\* _swap_with_parent
swap_next(b, cnt, r) ==
    IF r.err # "" THEN [w |-> r.w, err |-> r.err, swaps |-> cnt]
    ELSE IF ~r.swapped THEN [w |-> r.w, err |-> "", swaps |-> cnt]
    ELSE IF cnt + 1 > Cardinality(DOMAIN r.w.blockchains)
         THEN [w |-> r.w, err |-> "swapping fork with parent too many times",
               swaps |-> cnt + 1]
    ELSE swap_loop(r.w, b, cnt + 1)

swap_loop(w, b, cnt) == swap_next(b, cnt, swap_step(w, b))

swap_with_parent(w, b) == swap_loop(w, b, 0)

(***************************************************************************)
(* save_header: returns [w, err, swaps]                                    *)
(***************************************************************************)
after_write(r, b) ==
    IF r.err # "" THEN [w |-> r.w, err |-> r.err, swaps |-> 0]
    ELSE swap_with_parent(r.w, b)

save_data(w, b, data) ==
    IF ~(Len(data) * BLOCK = HEADER_SIZE \/ Len(data) * BLOCK = HEADER_SIZE_SAPLING)
    THEN [w |-> w, err |-> "AssertionError", swaps |-> 0]
    ELSE after_write(write(w, b, data, getsize(w, path(w, b)), TRUE), b)

\* save_header up to and including self.write(data, size)
header_write(w, b, header) ==
    IF header.block_height - w.chains[b].forkpoint # size(w, b)
    THEN Fail(w, "AssertionError")
    ELSE IF ~(Len(serialize_header(header)) * BLOCK \in {HEADER_SIZE, HEADER_SIZE_SAPLING})
         THEN Fail(w, "AssertionError")
    ELSE write(w, b, serialize_header(header), getsize(w, path(w, b)), TRUE)

\* save_header without "assert delta == self.size()"
save_header_unchecked(w, b, header) == save_data(w, b, serialize_header(header))

save_header(w, b, header) ==
    IF header.block_height - w.chains[b].forkpoint # size(w, b)
    THEN [w |-> w, err |-> "AssertionError", swaps |-> 0]
    ELSE save_data(w, b, serialize_header(header))

(***************************************************************************)
(* verify_chunk, save_chunk, connect_chunk                                 *)
(***************************************************************************)
index_sapling == SAPLING_HEIGHT \div CHUNK
offset_sapling == SAPLING_HEIGHT - (SAPLING_HEIGHT \div CHUNK) * CHUNK

get_delta_bytes(h) ==
    IF h < SAPLING_HEIGHT THEN h * HEADER_SIZE
    ELSE SAPLING_HEIGHT * HEADER_SIZE + (h - SAPLING_HEIGHT) * HEADER_SIZE_SAPLING

\* the number of headers verify_chunk takes len bytes of chunk index to hold
chunk_num(index, len) ==
    IF index < index_sapling THEN len \div HEADER_SIZE
    ELSE IF index = index_sapling
    THEN IF len <= offset_sapling * HEADER_SIZE THEN len \div HEADER_SIZE
         ELSE offset_sapling + (len - offset_sapling * HEADER_SIZE) \div HEADER_SIZE_SAPLING
    ELSE len \div HEADER_SIZE_SAPLING

\* headers[height] = header
put(headers, hgt, header) ==
    [k \in DOMAIN headers \cup {hgt} |-> IF k = hgt THEN header ELSE headers[k]]

RECURSIVE verify_loop(_, _, _, _, _, _, _, _)
verify_against(w, b, index, data, num, i, prev_hash, hs, eh, header, target) ==
    IF target < 0 THEN FALSE
    ELSE IF ~verify_header(header, prev_hash, target, IF eh = MISSING THEN NoneHash ELSE eh)
         THEN FALSE
    ELSE verify_loop(w, b, index, data, num, i + 1, hash_header(header), hs)

verify_at(w, b, index, data, num, i, prev_hash, headers, eh, header) ==
    IF eh = RAISED \/ header = Raised THEN FALSE
    ELSE verify_against(w, b, index, data, num, i, prev_hash,
                        put(headers, index * CHUNK + i, header), eh, header,
                        get_target(w, b, index * CHUNK + i,
                                   put(headers, index * CHUNK + i, header)))

\* the loop of verify_chunk; TRUE when it ends without raising
verify_loop(w, b, index, data, num, i, prev_hash, headers) ==
    IF i >= num THEN TRUE
    ELSE verify_at(w, b, index, data, num, i, prev_hash, headers,
                   get_hash(w, b, index * CHUNK + i),
                   deserialize_header(
                       fread(data,
                             get_delta_bytes(index * CHUNK + i) - get_delta_bytes(index * CHUNK),
                             read_size(index * CHUNK + i)),
                       index * CHUNK + i))

verify_from(w, b, index, data, prev_hash) ==
    IF prev_hash < 0 THEN FALSE
    ELSE verify_loop(w, b, index, data, chunk_num(index, Len(data) * BLOCK), 0,
                     prev_hash, EmptyDict)

\* TRUE when verify_chunk returns, FALSE when it raises
verify_chunk(w, b, index, data) ==
    verify_from(w, b, index, data, get_hash(w, b, index * CHUNK - 1))

get_best_chain(w) == w.blockchains[GENESIS]

\* the byte offset save_chunk computes for the chunk, before clipping
chunk_delta_bytes(forkpoint, index) ==
    IF index < index_sapling THEN (index * CHUNK - forkpoint) * HEADER_SIZE
    ELSE IF index = index_sapling
    THEN IF forkpoint < SAPLING_HEIGHT THEN (index * CHUNK - forkpoint) * HEADER_SIZE
         ELSE (index * CHUNK - SAPLING_HEIGHT) * HEADER_SIZE_SAPLING
              + (SAPLING_HEIGHT - forkpoint) * HEADER_SIZE
    ELSE IF forkpoint < SAPLING_HEIGHT
         THEN (index * CHUNK - SAPLING_HEIGHT) * HEADER_SIZE_SAPLING
              + (SAPLING_HEIGHT - forkpoint) * HEADER_SIZE
         ELSE (index * CHUNK - forkpoint) * HEADER_SIZE_SAPLING

\* from "if delta_bytes < 0" on
chunk_write(w, b, index, chunk, delta_bytes) ==
    write(w, b,
          IF delta_bytes < 0
          THEN SubSeq(chunk, (0 - delta_bytes) \div BLOCK + 1, Len(chunk))
          ELSE chunk,
          Max(0, delta_bytes), ~(index < NumCheckpoints))

save_chunk_at(w, b, index, chunk, delta_bytes) ==
    after_write(chunk_write(w, b, index, chunk, delta_bytes), b)

\* save_chunk past the delegation to the main chain
save_chunk_own(w, b, index, chunk) ==
    save_chunk_at(w, b, index, chunk, chunk_delta_bytes(w.chains[b].forkpoint, index))

delegated(r) == [w |-> r.w, err |-> r.err, swaps |-> 0]

\* save_chunk without the delegation to the main chain
save_chunk_local(w, b, index, chunk) ==
    IF index < 0 THEN [w |-> w, err |-> "AssertionError", swaps |-> 0]
    ELSE save_chunk_own(w, b, index, chunk)

\* returns [w, err, swaps]
save_chunk(w, b, index, chunk) ==
    IF index < 0 THEN [w |-> w, err |-> "AssertionError", swaps |-> 0]
    ELSE IF ~(index < NumCheckpoints /\ w.chains[b].parent # 0)
         THEN save_chunk_own(w, b, index, chunk)
    ELSE IF GENESIS \notin DOMAIN w.blockchains
         THEN [w |-> w, err |-> "KeyError", swaps |-> 0]
    ELSE IF w.chains[get_best_chain(w)].parent # 0
         THEN [w |-> w, err |-> "RecursionError", swaps |-> 0]
    ELSE delegated(save_chunk_own(w, get_best_chain(w), index, chunk))

\* connect_chunk without the except clause
uncaught(r) == r

caught(r) == [w |-> r.w, err |-> IF r.err = "" THEN "" ELSE "False", swaps |-> r.swaps]

\* returns [w, err, swaps]; err = "" is the result True, "False" the result False
connect_chunk(w, b, idx, data) ==
    IF idx < 0 THEN [w |-> w, err |-> "AssertionError", swaps |-> 0]
    ELSE IF ~verify_chunk(w, b, idx, data) THEN [w |-> w, err |-> "False", swaps |-> 0]
    ELSE caught(save_chunk(w, b, idx, data))

(***************************************************************************)
(* fork: returns [w, err, swaps]                                           *)
(***************************************************************************)
\* the object the constructor builds is number Len(w.chains) + 1; it stays in the
\* arena when the registry or another object refers to it afterwards
referenced(w, n) ==
    \/ \E k \in DOMAIN w.blockchains : w.blockchains[k] = n
    \/ \E c \in 1..Len(w.chains) : c # n /\ w.chains[c].parent = n

drop_unreferenced(w, n) ==
    IF referenced(w, n) THEN w ELSE [w EXCEPT !.chains = SubSeq(w.chains, 1, n - 1)]

\* "put into global dict"
fork_register(r, self) ==
    IF r.err # "" THEN [w |-> drop_unreferenced(r.w, self), err |-> r.err, swaps |-> r.swaps]
    ELSE IF get_id(r.w, self) \in DOMAIN r.w.blockchains
         THEN [w |-> drop_unreferenced(r.w, self), err |-> "AssertionError",
               swaps |-> r.swaps]
    ELSE [w |-> [r.w EXCEPT !.blockchains =
                    [k \in DOMAIN r.w.blockchains \cup {get_id(r.w, self)} |->
                        IF k = get_id(r.w, self) THEN self ELSE r.w.blockchains[k]]],
          err |-> "", swaps |-> r.swaps]

\* open(self.path(), 'w+').close()
fork_file(w, self) ==
    [w EXCEPT !.files = [q \in DOMAIN w.files \cup {path(w, self)} |->
                            IF q = path(w, self) THEN <<>> ELSE w.files[q]]]

\* Blockchain(forkpoint, parent, forkpoint_hash, prev_hash)
fork_object(w, parent, header) ==
    update_size([w EXCEPT !.chains =
                    Append(w.chains,
                           [forkpoint |-> header.block_height, parent |-> parent,
                            forkpoint_hash |-> hash_header(header),
                            prev_hash |-> get_hash(w, parent, header.block_height - 1),
                            size |-> 0])],
                Len(w.chains) + 1)

fork(w, parent, header) ==
    IF ~can_connect(w, parent, header, FALSE)
    THEN [w |-> w, err |-> "forking header does not connect to parent chain", swaps |-> 0]
    ELSE IF 0 < header.block_height /\ header.block_height <= max_checkpoint
         THEN [w |-> w, err |-> "cannot fork below max checkpoint", swaps |-> 0]
    ELSE IF header.block_height <= 0 THEN [w |-> w, err |-> "AssertionError", swaps |-> 0]
    ELSE fork_register(save_header(fork_file(fork_object(w, parent, header),
                                             Len(w.chains) + 1),
                                   Len(w.chains) + 1, header),
                       Len(w.chains) + 1)

(***************************************************************************)
(* read_blockchains: returns [w, err, swaps].  A fork file is known by its *)
(* path <<forkpoint, prev_hash, first_hash>>; l is the sorted listing of   *)
(* the forks directory.                                                    *)
(***************************************************************************)
\* the world after the first statement: the main chain alone in the registry
boot_world(fs) ==
    update_size([chains |-> <<[forkpoint |-> 0, parent |-> 0, forkpoint_hash |-> GENESIS,
                               prev_hash |-> NoneHash, size |-> 0]>>,
                 files |-> fs,
                 blockchains |-> (GENESIS :> 1),
                 cache |-> (ZERO_HASH :> 0)], 1)

\* delete_chain
delete_chain(w, p) == [w EXCEPT !.files = [q \in DOMAIN w.files \ {p} |-> w.files[q]]]

\* "find parent": the chains of the registry with the hash prev_hash at height
\* forkpoint - 1, and the first of them in the order of instantiation (0: none)
parents_of(w, p) ==
    {c \in {w.blockchains[k] : k \in DOMAIN w.blockchains} : check_hash(w, c, p[1] - 1, p[2])}

find_parent(w, p) ==
    IF parents_of(w, p) = {} THEN 0
    ELSE CHOOSE c \in parents_of(w, p) : \A d \in parents_of(w, p) : c <= d

\* b = Blockchain(forkpoint, parent, first_hash, prev_hash)
chain_of_file(w, p, parent) ==
    update_size([w EXCEPT !.chains =
                    Append(w.chains,
                           [forkpoint |-> p[1], parent |-> parent, forkpoint_hash |-> p[3],
                            prev_hash |-> p[2], size |-> 0])],
                Len(w.chains) + 1)

\* the consistency checks without "incorrect first hash for chain"
chain_checks_unhashed(w, p, b, h) ==
    IF h = Raised THEN Fail([w EXCEPT !.chains = SubSeq(w.chains, 1, b - 1)], "Exception")
    ELSE IF ~can_connect(w, w.chains[b].parent, h, FALSE)
         THEN Ok(delete_chain([w EXCEPT !.chains = SubSeq(w.chains, 1, b - 1)], p))
    ELSE Ok([w EXCEPT !.blockchains =
                [k \in DOMAIN w.blockchains \cup {get_id(w, b)} |->
                    IF k = get_id(w, b) THEN b ELSE w.blockchains[k]]])

\* "consistency checks" on the object b built for the file p, whose first
\* header is h, then the entry into the registry
chain_checks(w, p, b, h) ==
    IF h = Raised THEN Fail([w EXCEPT !.chains = SubSeq(w.chains, 1, b - 1)], "Exception")
    ELSE IF p[3] # hash_header(h) \/ ~can_connect(w, w.chains[b].parent, h, FALSE)
         THEN Ok(delete_chain([w EXCEPT !.chains = SubSeq(w.chains, 1, b - 1)], p))
    ELSE Ok([w EXCEPT !.blockchains =
                [k \in DOMAIN w.blockchains \cup {get_id(w, b)} |->
                    IF k = get_id(w, b) THEN b ELSE w.blockchains[k]]])

instantiate_under(w, p, parent) ==
    IF parent = 0 THEN Ok(delete_chain(w, p))
    ELSE IF 0 < p[1] /\ p[1] <= max_checkpoint
         THEN Fail(w, "cannot fork below max checkpoint")
    ELSE chain_checks(chain_of_file(w, p, parent), p, Len(w.chains) + 1,
                      read_header(chain_of_file(w, p, parent), Len(w.chains) + 1, p[1]))

\* instantiate_chain without "forks below the max checkpoint are not allowed"
instantiate_chain_any(w, p) == instantiate_under(w, p, find_parent(w, p))

instantiate_chain(w, p) ==
    IF p[1] <= max_checkpoint THEN Ok(delete_chain(w, p))
    ELSE instantiate_under(w, p, find_parent(w, p))

RECURSIVE instantiate_all(_, _, _)
\* "for filename in l: instantiate_chain(filename)", from the i-th name on
instantiate_all(r, l, i) ==
    IF i > Len(l) \/ r.err # "" THEN r
    ELSE instantiate_all(instantiate_chain(r.w, l[i]), l, i + 1)

read_blockchains(fs, l) == instantiate_all(Ok(boot_world(fs)), l, 1)

RECURSIVE Listings(_)
\* sorted(l, key=forkpoint) of os.listdir: every order of the names S by
\* ascending forkpoint
Listings(S) ==
    IF S = {} THEN {<<>>}
    ELSE UNION {{<<p>> \o l : l \in Listings(S \ {p})} :
                p \in {q \in S : \A r \in S : q[1] <= r[1]}}

(***************************************************************************)
(* State: the world, and the last operation with its inputs and outcome    *)
(***************************************************************************)
VARIABLES chains, files, blockchains, cache, last, ops

\* the threads of the program: the call each is in, its position in it, and
\* the locks it holds in the order it acquired them (a chain's lock is known
\* by the object number, the registry lock by 0)
VARIABLE threads

\* a call of a function of targets: its name, its arguments and its result
VARIABLE calc
vars == <<testnet, chains, files, blockchains, cache, last, ops, threads, calc>>

NThreads == 2
Threads == 1..NThreads
REGISTRY_LOCK == 0
NoCalc == [fn |-> "", header |-> None, prev_hash |-> 0, target |-> 0, expected |-> 0,
           h |-> 0, chain |-> <<>>, bits |-> 0, done |-> FALSE, out |-> 0]
Idle == [op |-> "idle", at |-> "", b |-> 0, header |-> None, h |-> 0, data |-> <<>>,
         par |-> 0, cnt |-> 0, stack |-> <<>>]

World == [chains |-> chains, files |-> files, blockchains |-> blockchains,
          cache |-> cache]

\* the world after the step being taken
WorldNext == [chains |-> chains', files |-> files', blockchains |-> blockchains',
              cache |-> cache']

RECURSIVE CanonBytes(_, _)
\* the serialized headers of the checkpointed chain from height lo to height hi
CanonBytes(lo, hi) ==
    IF hi < lo THEN <<>>
    ELSE CanonBytes(lo, hi - 1) \o serialize_header(CanonHeader(hi))

\* the main chain's file when the program starts: empty, or zero-filled over
\* the checkpoint region (the tombstones of spec section 4.4), alone or
\* followed by the headers above it up to the last height but one
InitialFiles ==
    {<<>>} \cup {Zeros(get_delta_bytes(max_checkpoint + 1) \div BLOCK)
                   \o CanonBytes(max_checkpoint + 1, hi) :
                 hi \in {max_checkpoint, MaxHeight - 1}}

\* read_blockchains on a headers directory without forks
InitWorld(f) == boot_world(MainPath :> f)

\* the last operation: its receiver b, its header or its chunk (index idx, len
\* bytes), the height the receiver had before it, and its outcome
Note(op, b, header, idx, len, had, err, swaps) ==
    [op |-> op, b |-> b, header |-> header, idx |-> idx, len |-> len, had |-> had,
     err |-> err, swaps |-> swaps]

Become(w) ==
    /\ chains' = w.chains
    /\ files' = w.files
    /\ blockchains' = w.blockchains
    /\ cache' = w.cache

StartWorld(w) ==
    /\ chains = w.chains
    /\ files = w.files
    /\ blockchains = w.blockchains
    /\ cache = w.cache
    /\ last = Note("init", 0, None, 0, 0, 0, "", 0)
    /\ ops = 0
    /\ threads = [t \in Threads |-> Idle]

Start(w) == StartWorld(w) /\ calc = NoCalc

Init == testnet \in BOOLEAN /\ \E f \in InitialFiles : Start(InitWorld(f))

\* the step that runs an operation with outcome r
Apply(r, op, b, header, idx, len) ==
    /\ ops < MaxOps
    /\ ops' = ops + 1
    /\ testnet' = testnet
    /\ threads' = threads
    /\ calc' = calc
    /\ Become(r.w)
    /\ last' = Note(op, b, IF r.err = "" \/ op = "save_header" THEN header ELSE None,
                    IF r.err = "" THEN idx ELSE 0, IF r.err = "" THEN len ELSE 0,
                    height(World, b), r.err, r.swaps)

Registered == {blockchains[k] : k \in DOMAIN blockchains}

(***************************************************************************)
(* Inputs                                                                  *)
(***************************************************************************)
Heights == 0..MaxHeight
Tags == 0..(NTags - 1)

\* the headers a caller may hold for height h given the hash prev below h:
\* well formed for the height and linked to prev
Linked(h, prev, tags) ==
    IF h = 0 THEN {CanonHeader(0)}
    ELSE {Header(VersionAt(h), IF prev < 0 THEN HASH_EMPTY ELSE prev, t, h) : t \in tags}

\* a header for height h that names a predecessor no chain holds
Unlinked(h) ==
    IF h = 0 THEN {} ELSE {Header(VersionAt(h), HASH_EMPTY, 0, h)}

\* the headers offered to chain b for height h: one linked to the chain and
\* one that is not
HeadersFor(w, b, h) == Linked(h, get_hash(w, b, h - 1), {0}) \cup Unlinked(h)

\* the headers offered to fork chain b at height h: every linked header up to
\* the height after the tip, one linked header above it, and one not linked
ForkHeadersFor(w, b, h) ==
    Linked(h, get_hash(w, b, h - 1), IF h <= height(w, b) + 1 THEN Tags ELSE {0})
        \cup Unlinked(h)

RECURSIVE ChunkFrom(_, _, _)
\* the byte strings of n linked headers from height h on, the first linked to prev
ChunkFrom(h, n, prev) ==
    IF n = 0 THEN {<<>>}
    ELSE UNION {{serialize_header(hd) \o rest :
                    rest \in ChunkFrom(h + 1, n - 1, hash_header(hd))} :
                hd \in Linked(h, prev, {0})}

ChunksFor(w, b, idx) ==
    UNION {ChunkFrom(idx * CHUNK, n, get_hash(w, b, idx * CHUNK - 1)) :
           n \in 1..Min(CHUNK, MaxHeight + 1 - idx * CHUNK)}

\* the chunks offered to connect_chunk: the chunks for the index, and the
\* empty chunk for an index below 0
ChunkCalls(w, b, idx) == IF idx < 0 THEN {<<>>} ELSE ChunksFor(w, b, idx)

(***************************************************************************)
(* Actions                                                                 *)
(***************************************************************************)
\* a caller saves a header: one that does not extend the chain fails the
\* assertion; one that does was accepted by can_connect before
SaveHeader(b, header) ==
    /\ header.block_height - chains[b].forkpoint = size(World, b)
          => can_connect(World, b, header, TRUE)
    /\ Apply(save_header(World, b, header), "save_header", b, header, 0, 0)

Fork(parent, header) ==
    /\ Len(chains) < MaxChains
    /\ Apply(fork(World, parent, header), "fork", parent, header, 0, 0)

ConnectChunk(b, idx, data) ==
    Apply(connect_chunk(World, b, idx, data), "connect_chunk", b, None, idx,
          Len(data) * BLOCK)

SwapWithParent(b) ==
    Apply(swap_with_parent(World, b), "swap_with_parent", b, None, 0, 0)

Next ==
    \/ \E b \in Registered : \E h \in {height(World, b), height(World, b) + 1} \cap Heights :
          \E header \in HeadersFor(World, b, h) : SaveHeader(b, header)
    \/ \E b \in Registered : \E h \in Heights : \E header \in ForkHeadersFor(World, b, h) :
          Fork(b, header)
    \/ \E b \in Registered : \E idx \in (-1)..(MaxHeight \div CHUNK) :
          \E data \in ChunkCalls(World, b, idx) : ConnectChunk(b, idx, data)
    \/ \E b \in Registered : SwapWithParent(b)

Spec == Init /\ [][Next]_vars

(***************************************************************************)
(* The program from its start: the headers directory holds the main        *)
(* chain's file and fork files left on disk, read_blockchains builds the   *)
(* registry, and the operations follow; the program may be started again   *)
(* on the files it left.                                                   *)
(***************************************************************************)
BootOps == 4

\* the fork file with first header hd, named for the hash prev below it
ForkFile(hd, prev) ==
    [p |-> <<hd.block_height, prev, hash_header(hd)>>, f |-> serialize_header(hd)]

\* a fork of the checkpointed chain at height h
Branch(h) == Header(VersionAt(h), hash_header(CanonHeader(h - 1)), 1, h)

\* fork files found at start: one below the max checkpoint, forks of the main
\* chain, a fork of a fork, one whose parent no chain holds, one holding
\* another header than its name says, one whose header does not connect to
\* the chain its name points at, and an empty one
BootFiles ==
    {ForkFile(Branch(h), hash_header(CanonHeader(h - 1))) : h \in 1..SAPLING_HEIGHT}
    \cup {ForkFile(Header(VersionAt(max_checkpoint + 2),
                          hash_header(Branch(max_checkpoint + 1)), 0, max_checkpoint + 2),
                   hash_header(Branch(max_checkpoint + 1))),
          ForkFile(Header(VersionAt(SAPLING_HEIGHT), HASH_EMPTY, 0, SAPLING_HEIGHT),
                   HASH_EMPTY),
          [ForkFile(Branch(SAPLING_HEIGHT), hash_header(CanonHeader(SAPLING_HEIGHT - 1)))
              EXCEPT !.f = serialize_header(CanonHeader(SAPLING_HEIGHT))],
          ForkFile(Header(VersionAt(SAPLING_HEIGHT), HASH_EMPTY, 0, SAPLING_HEIGHT),
                   hash_header(CanonHeader(SAPLING_HEIGHT - 1))),
          [ForkFile(Branch(max_checkpoint + 1), hash_header(CanonHeader(max_checkpoint)))
              EXCEPT !.f = <<>>]}

\* the headers directories: a main file and at most two fork files
BootDirs ==
    {[q \in {MainPath} \cup {c.p : c \in S} |->
         IF q = MainPath THEN m ELSE (CHOOSE c \in S : c.p = q).f] :
     m \in InitialFiles,
     S \in {T \in SUBSET BootFiles :
               Cardinality(T) <= 2 /\ \A c, d \in T : c.p = d.p => c = d}}

InitBoot ==
    /\ testnet \in BOOLEAN
    /\ files \in BootDirs
    /\ chains = <<>>
    /\ blockchains = <<>>
    /\ cache = (ZERO_HASH :> 0)
    /\ last = Note("init", 0, None, 0, 0, 0, "", 0)
    /\ ops = 0
    /\ threads = [t \in Threads |-> Idle]
    /\ calc = NoCalc

\* the fork files of a directory, and those at or below the max checkpoint
ForkPaths(fs) == DOMAIN fs \ {MainPath}
LowPaths(fs) == {p \in ForkPaths(fs) : p[1] <= max_checkpoint}

\* the program starts: idx notes the fork files at or below the max
\* checkpoint it found, had the fork files it found
ReadBlockchains(l) ==
    /\ ops < BootOps
    /\ ops' = ops + 1
    /\ testnet' = testnet
    /\ threads' = threads
    /\ calc' = calc
    /\ Become(read_blockchains(files, l).w)
    /\ last' = Note("read_blockchains", 0, None, Cardinality(LowPaths(files)), 0,
                    Cardinality(ForkPaths(files)), read_blockchains(files, l).err, 0)

NextBoot ==
    \/ \E l \in Listings(ForkPaths(files)) : ReadBlockchains(l)
    \/ ops < BootOps /\ Next

SpecBoot == InitBoot /\ [][NextBoot]_vars

(***************************************************************************)
(* Threads and locks.  Every Blockchain has a re-entrant lock (with_lock   *)
(* and swap_with_parent take it) and the registry has one; a call is a     *)
(* sequence of steps, one for each lock it waits for.  A thread leaves     *)
(* all its locks when its call returns or raises.                          *)
(***************************************************************************)
LockOps == 2

\* no other thread holds lock l
Free(t, l) ==
    \A u \in Threads \ {t} : \A i \in 1..Len(threads[u].stack) : threads[u].stack[i] # l

Holds(t, l) == \E i \in 1..Len(threads[t].stack) : threads[t].stack[i] = l

\* the main chain with the headers above the checkpoints, a fork X of it on
\* which a header was saved, and a fork Y of X: three chains of equal height
TwoForks ==
    {fork(x, 2, Header(VersionAt(max_checkpoint + 2), hash_header(Branch(max_checkpoint + 1)),
                       1, max_checkpoint + 2)).w :
       x \in {save_header(m, 2, Header(VersionAt(max_checkpoint + 2),
                                       hash_header(Branch(max_checkpoint + 1)), 0,
                                       max_checkpoint + 2)).w :
                m \in {fork(InitWorld(f), 1, Branch(max_checkpoint + 1)).w :
                         f \in {Zeros(get_delta_bytes(max_checkpoint + 1) \div BLOCK)
                                  \o CanonBytes(max_checkpoint + 1, MaxHeight - 1)}}}}

InitLocks ==
    /\ testnet \in BOOLEAN
    /\ \E w \in TwoForks : Start(w)

Step(t, thread) ==
    /\ threads' = [threads EXCEPT ![t] = thread]
    /\ calc' = calc
    /\ testnet' = testnet
    /\ last' = last

\* a thread free to make a call
Ready(t) == threads[t].op = "idle" /\ ops < LockOps

\* a thread calls save_header, connect_chunk (past verify_chunk) or read_header
Call(t, thread) ==
    /\ Ready(t)
    /\ ops' = ops + 1
    /\ UNCHANGED <<chains, files, blockchains, cache>>
    /\ Step(t, thread)

\* with_lock: the thread waits for the lock of the chain it calls
Enter(t) ==
    /\ threads[t].at = "enter"
    /\ Free(t, threads[t].b)
    /\ UNCHANGED <<chains, files, blockchains, cache, ops>>
    /\ Step(t, [threads[t] EXCEPT !.at = "body", !.stack = Append(@, threads[t].b)])

\* the body of the call up to swap_with_parent, with outcome r of its write
Written(t, r) ==
    /\ Become(r.w)
    /\ ops' = ops
    /\ Step(t, IF r.err # "" THEN Idle
               ELSE [threads[t] EXCEPT !.at = "parent_lock",
                                       !.par = chains[threads[t].b].parent])

\* read_header and the delegation of save_chunk go on in another chain,
\* whose lock they take with the locks already held
Body(t) ==
    /\ threads[t].at = "body"
    /\ \/ /\ threads[t].op = "save_header"
          /\ Written(t, header_write(World, threads[t].b, threads[t].header))
       \/ /\ threads[t].op = "save_chunk"
          /\ ~(threads[t].h < NumCheckpoints /\ chains[threads[t].b].parent # 0)
          /\ Written(t, chunk_write(World, threads[t].b, threads[t].h, threads[t].data,
                                    chunk_delta_bytes(chains[threads[t].b].forkpoint,
                                                      threads[t].h)))
       \/ /\ threads[t].op = "save_chunk"
          /\ threads[t].h < NumCheckpoints /\ chains[threads[t].b].parent # 0
          /\ UNCHANGED <<chains, files, blockchains, cache, ops>>
          /\ Step(t, IF GENESIS \in DOMAIN blockchains
                     THEN [threads[t] EXCEPT !.at = "enter", !.b = get_best_chain(World)]
                     ELSE Idle)
       \/ /\ threads[t].op = "read_header"
          /\ UNCHANGED <<chains, files, blockchains, cache, ops>>
          /\ Step(t, IF /\ 0 <= threads[t].h
                        /\ threads[t].h < chains[threads[t].b].forkpoint
                        /\ chains[threads[t].b].parent # 0
                     THEN [threads[t] EXCEPT !.at = "enter",
                                             !.b = chains[threads[t].b].parent]
                     ELSE Idle)

\* swap_with_parent: "with parent_lock, self.lock, blockchains_lock"
AcquireParent(t) ==
    /\ threads[t].at = "parent_lock"
    /\ threads[t].par # 0 => Free(t, threads[t].par)
    /\ UNCHANGED <<chains, files, blockchains, cache, ops>>
    /\ Step(t, [threads[t] EXCEPT
                   !.at = "self_lock",
                   !.stack = IF threads[t].par = 0 THEN @ ELSE Append(@, threads[t].par)])

AcquireSelf(t) ==
    /\ threads[t].at = "self_lock"
    /\ Free(t, threads[t].b)
    /\ UNCHANGED <<chains, files, blockchains, cache, ops>>
    /\ Step(t, [threads[t] EXCEPT !.at = "registry_lock", !.stack = Append(@, threads[t].b)])

AcquireRegistry(t) ==
    /\ threads[t].at = "registry_lock"
    /\ Free(t, REGISTRY_LOCK)
    /\ UNCHANGED <<chains, files, blockchains, cache, ops>>
    /\ Step(t, [threads[t] EXCEPT !.at = "swap", !.stack = Append(@, REGISTRY_LOCK)])

\* one turn of the loop: _swap_with_parent calls self.parent.get_chainwork(),
\* which waits for the lock of the chain that is the parent now
SwapStep(t) ==
    /\ threads[t].at = "swap"
    /\ chains[threads[t].b].parent # 0 => Free(t, chains[threads[t].b].parent)
    /\ Become(swap_step(World, threads[t].b).w)
    /\ ops' = ops
    /\ Step(t, IF \/ swap_step(World, threads[t].b).err # ""
                  \/ ~swap_step(World, threads[t].b).swapped
                  \/ threads[t].cnt + 1
                        > Cardinality(DOMAIN swap_step(World, threads[t].b).w.blockchains)
               THEN Idle
               ELSE [threads[t] EXCEPT !.cnt = @ + 1])

NextLocks ==
    \/ \E t \in Threads : Ready(t) /\ \E b \in Registered :
          \E header \in HeadersFor(World, b, height(World, b) + 1) :
             /\ can_connect(World, b, header, TRUE)
             /\ Call(t, [Idle EXCEPT !.op = "save_header", !.at = "enter", !.b = b,
                                     !.header = header])
    \/ \E t \in Threads : Ready(t) /\ \E b \in Registered :
          \E idx \in 0..(MaxHeight \div CHUNK) : \E data \in ChunksFor(World, b, idx) :
             /\ verify_chunk(World, b, idx, data)
             /\ Call(t, [Idle EXCEPT !.op = "save_chunk", !.at = "enter", !.b = b,
                                     !.h = idx, !.data = data])
    \/ \E t \in Threads : Ready(t) /\ \E b \in Registered : \E h \in Heights :
          Call(t, [Idle EXCEPT !.op = "read_header", !.at = "enter", !.b = b, !.h = h])
    \/ \E t \in Threads : Enter(t)
    \/ \E t \in Threads : Body(t)
    \/ \E t \in Threads : AcquireParent(t)
    \/ \E t \in Threads : AcquireSelf(t)
    \/ \E t \in Threads : AcquireRegistry(t)
    \/ \E t \in Threads : SwapStep(t)

SpecLocks == InitLocks /\ [][NextLocks]_vars

(***************************************************************************)
(* Properties                                                              *)
(***************************************************************************)
\* get_chainwork() of chain b in world w; -1 when it raises
Work(w, b) ==
    IF get_chainwork(w, b).err # "" THEN 0 - 1 ELSE get_chainwork(w, b).work

\* the byte length of n records from height fp on
record_bytes(fp, n) == get_delta_bytes(fp + n) - get_delta_bytes(fp)

RECURSIVE SumWork(_, _, _)
\* the sum of chainwork_of_header_at_height over the heights 0..h
SumWork(w, b, h) ==
    IF h < 0 THEN 0 ELSE SumWork(w, b, h - 1) + chainwork_of_header_at_height(w, b, h)

\* the last operation ran swap_with_parent on a chain that was not the best
\* chain, and returned
SwapCall ==
    /\ last'.op \in {"swap_with_parent", "save_header"}
    /\ last'.err = ""
    /\ GENESIS \in DOMAIN blockchains
    /\ last'.b # get_best_chain(World)

\* C1: after save_header(header) returns for a header at forkpoint + size(),
\* any swap with the parent included, read_header(block_height) of the same
\* chain returns that header.
C1_SaveThenRead ==
    (last.op = "save_header" /\ last.err = "")
        => read_header(World, last.b, last.header.block_height) = last.header

\* C2: _swap_with_parent swaps exactly when the chain has a parent and its
\* get_chainwork() is strictly greater than the parent's; when it does not
\* swap, files, chain metadata and registry are as before.
C2_SwapCondition ==
    \A b \in Registered :
        /\ swap_step(World, b).swapped <=>
              (/\ chains[b].parent # 0
               /\ Work(World, b) > Work(World, chains[b].parent))
        /\ ~swap_step(World, b).swapped =>
              /\ swap_step(World, b).w.files = files
              /\ swap_step(World, b).w.chains = chains
              /\ swap_step(World, b).w.blockchains = blockchains

\* C3: when swap_with_parent swaps a chain whose parent is the main chain and
\* returns, the registry holds the genesis id, get_best_chain() is the chain
\* that was the child, and that chain has parent None and forkpoint 0.
C3_SwapWithMain ==
    [][(/\ last'.op \in {"swap_with_parent", "save_header", "connect_chunk"}
        /\ last'.err = ""
        /\ last'.swaps >= 1
        /\ chains[last'.b].parent # 0
        /\ chains[chains[last'.b].parent].parent = 0) =>
          /\ GENESIS \in DOMAIN blockchains'
          /\ get_best_chain(WorldNext) = last'.b
          /\ chains'[last'.b].parent = 0
          /\ chains'[last'.b].forkpoint = 0]_vars

\* a swap with the main chain has just made the chain of the last operation
\* the best chain
C3_Swapped ==
    /\ last.op \in {"swap_with_parent", "save_header", "connect_chunk"}
    /\ last.err = ""
    /\ last.swaps >= 1
    /\ GENESIS \in DOMAIN blockchains
    /\ get_best_chain(World) = last.b
    /\ chains[last.b].forkpoint = 0

\* C4: for every call of swap_with_parent, the chainwork of get_best_chain()
\* is strictly greater after the call when a swap step occurred and equal
\* when none did; stated for the swap steps that make the chain the best
\* chain (a swap between two forks leaves the best chain as it was).
C4_BestWork ==
    [][SwapCall =>
          /\ GENESIS \in DOMAIN blockchains'
          /\ (last'.swaps >= 1 /\ get_best_chain(WorldNext) = last'.b) =>
                Work(WorldNext, get_best_chain(WorldNext)) > Work(World, get_best_chain(World))
          /\ last'.swaps = 0 =>
                Work(WorldNext, get_best_chain(WorldNext)) = Work(World, get_best_chain(World))]_vars

\* C5: get_chainwork() of a chain is the sum of chainwork_of_header_at_height
\* over the heights 0..height().
C5_CumulativeWork ==
    \A b \in Registered :
        height(World, b) >= 0 =>
            get_chainwork(World, b).work = SumWork(World, b, height(World, b))

\* C6: the size in bytes of the file of every chain of the registry is the
\* byte length of size() records from its forkpoint on, 80 bytes a record
\* below SAPLING_HEIGHT and 112 bytes from there on.
C6_FileSize ==
    \A b \in Registered :
        getsize(World, path(World, b)) = record_bytes(chains[b].forkpoint, size(World, b))

\* C7: the id of read_header(forkpoint) of every chain of the registry is
\* its get_id(); stated for the chains with a parent, whose first header
\* fork writes (the file of the main chain starts empty or zero-filled).
C7_ForkpointId ==
    \A b \in Registered :
        chains[b].parent # 0 =>
            hash_header(read_header(World, b, chains[b].forkpoint)) = get_id(World, b)

\* C8: for every chain of the registry with a parent, prev_block_hash of
\* read_header(forkpoint) is the stored prev_hash, and that prev_hash is
\* parent.get_hash(forkpoint - 1).
C8_ForkpointPrev ==
    \A b \in Registered :
        chains[b].parent # 0 =>
            /\ read_header(World, b, chains[b].forkpoint).prev_block_hash = chains[b].prev_hash
            /\ chains[b].prev_hash = get_hash(World, chains[b].parent, chains[b].forkpoint - 1)

\* C9: for every chain of the registry and every height h with
\* forkpoint < h <= height(), prev_block_hash of read_header(h) is the id of
\* read_header(h - 1); stated for the heights at which both records hold a
\* header (read_header returns None for a zero-filled record).
C9_Linked ==
    \A b \in Registered : \A h \in Heights :
        (/\ chains[b].forkpoint < h
         /\ h <= height(World, b)
         /\ read_header(World, b, h) \notin {None, Raised}
         /\ read_header(World, b, h - 1) \notin {None, Raised}) =>
            read_header(World, b, h).prev_block_hash
                = hash_header(read_header(World, b, h - 1))

\* C10: save_header passes its assertion exactly for a header at height
\* forkpoint + size(); a failed assertion leaves files and chain metadata as
\* they were; after a write that returns, swap_with_parent has run, so that
\* the chain has no parent or does not outweigh it.
C10_Contiguous ==
    [][last'.op = "save_header" =>
          /\ (last'.err # "AssertionError") <=>
                (last'.header.block_height = chains[last'.b].forkpoint + size(World, last'.b))
          /\ last'.err = "AssertionError" => (files' = files /\ chains' = chains)
          /\ last'.err = "" =>
                \/ chains'[last'.b].parent = 0
                \/ Work(WorldNext, chains'[last'.b].parent) >= Work(WorldNext, last'.b)]_vars

\* save_header has just refused a header that does not extend the chain
C10_Refused ==
    /\ last.op = "save_header"
    /\ last.err = "AssertionError"
    /\ last.header.block_height # chains[last.b].forkpoint + size(World, last.b)

RECURSIVE layout_bytes(_, _)
\* the piecewise layout: the byte length of the records of heights lo..hi-1,
\* 80 bytes a record below SAPLING_HEIGHT and 112 bytes from there on
layout_bytes(lo, hi) ==
    IF hi <= lo THEN 0
    ELSE layout_bytes(lo, hi - 1)
         + (IF hi - 1 < SAPLING_HEIGHT THEN HEADER_SIZE ELSE HEADER_SIZE_SAPLING)

\* the bytes the file f of a chain with forkpoint fp holds for height h
stored_record(f, fp, h) ==
    SubSeq(f, layout_bytes(fp, h) \div BLOCK + 1,
           Min(Len(f), layout_bytes(fp, h + 1) \div BLOCK))

\* what a read of the record rec for height h gives
record_header(rec, h) ==
    IF Len(rec) * BLOCK < layout_bytes(h, h + 1) THEN Raised
    ELSE IF \A k \in 1..Len(rec) : rec[k] = 0 THEN None
    ELSE deserialize_header(rec, h)

\* the height of the last header of a chunk of len bytes at index idx
chunk_last(idx, len) == idx * CHUNK + chunk_num(idx, len) - 1

\* C11: every chain of the registry that has a parent has its forkpoint above
\* max_checkpoint, after every step of the program, a swap included; fork
\* builds no Blockchain at a height in 1..max_checkpoint and fails there
\* leaving the world as it was; read_blockchains deletes every fork file
\* with a forkpoint at or below max_checkpoint.
C11_NoLowFork ==
    [][/\ \A k \in DOMAIN blockchains' :
             chains'[blockchains'[k]].parent # 0 =>
                chains'[blockchains'[k]].forkpoint > max_checkpoint
       /\ \A b \in Registered : \A h \in 1..max_checkpoint :
             \A header \in ForkHeadersFor(World, b, h) :
                /\ fork(World, b, header).err
                      \in {"cannot fork below max checkpoint",
                           "forking header does not connect to parent chain"}
                /\ fork(World, b, header).w = World
       /\ last'.op = "read_blockchains" =>
             /\ last'.err = ""
             /\ LowPaths(files') = {}]_vars

\* the program has started on a directory that held a fork file below the
\* max checkpoint and another fork file, which it registered
C11_LowDeleted ==
    /\ last.op = "read_blockchains"
    /\ last.idx >= 1
    /\ LowPaths(files) = {}
    /\ \E b \in Registered : chains[b].parent # 0

\* C14: the loop of swap_with_parent raises 'too many times' exactly when the
\* number of swap steps completed in the call exceeds len(blockchains);
\* otherwise it ends normally once _swap_with_parent returns False.
C14_SwapBound ==
    [][last'.op \in {"swap_with_parent", "save_header"} =>
          /\ (last'.err = "swapping fork with parent too many times") <=>
                (last'.swaps > Cardinality(DOMAIN blockchains'))
          /\ last'.err = "" =>
                /\ ~swap_step(WorldNext, last'.b).swapped
                /\ swap_step(WorldNext, last'.b).err = ""]_vars

\* a call of swap_with_parent has returned normally after two swap steps
C14_Returned ==
    /\ last.op \in {"swap_with_parent", "save_header"}
    /\ last.err = ""
    /\ last.swaps >= 2
    /\ last.swaps <= Cardinality(DOMAIN blockchains)

\* C15: read_header(h) is None for h < 0 and for h > height(), is
\* parent.read_header(h) for h < forkpoint, and for forkpoint <= h <= height()
\* is the header deserialized from the record stored at h, None for a record
\* of zero bytes only; a record shorter than its size makes the read fail.
C15_ReadHeader ==
    \A b \in Registered : \A h \in (0 - 1)..(MaxHeight + 1) :
        read_header(World, b, h) =
            IF h < 0 THEN None
            ELSE IF h < chains[b].forkpoint
                 THEN IF chains[b].parent = 0 THEN Raised
                      ELSE read_header(World, chains[b].parent, h)
            ELSE IF h > height(World, b) THEN None
            ELSE IF path(World, b) \notin DOMAIN files THEN Raised
            ELSE record_header(stored_record(files[path(World, b)],
                                             chains[b].forkpoint, h), h)

\* a fork reads one header from its parent and one from its own file, and a
\* zero-filled record of the checkpoint region reads as None
C15_Delegates ==
    \E b \in Registered :
        /\ chains[b].parent # 0
        /\ read_header(World, b, chains[b].forkpoint - 1) \notin {None, Raised}
        /\ read_header(World, b, chains[b].forkpoint) \notin {None, Raised}
        /\ height(World, chains[b].parent) >= 1
        /\ read_header(World, b, 1) = None

\* C16: for every forkpoint f and height h >= f the offset read_header seeks
\* to is (h-f)*80 for h < SAPLING_HEIGHT, (h-f)*112 for f >= SAPLING_HEIGHT,
\* and (SAPLING_HEIGHT-f)*80 + (h-SAPLING_HEIGHT)*112 otherwise.
C16_ReadOffset ==
    \A f \in 0..(MaxHeight + 1) \cup {chains[b].forkpoint : b \in Registered} :
      \A h \in f..(MaxHeight + 1) :
        /\ read_offset(f, h) =
              IF h < SAPLING_HEIGHT THEN (h - f) * 80
              ELSE IF f >= SAPLING_HEIGHT THEN (h - f) * 112
              ELSE (SAPLING_HEIGHT - f) * 80 + (h - SAPLING_HEIGHT) * 112
        /\ read_offset(f, h) = layout_bytes(f, h)

\* a chain whose forkpoint is SAPLING_HEIGHT reads the headers it holds at
\* that height and at the next
C16_AtSapling ==
    \E b \in Registered :
        /\ chains[b].forkpoint = SAPLING_HEIGHT
        /\ read_header(World, b, SAPLING_HEIGHT) \notin {None, Raised}
        /\ read_header(World, b, SAPLING_HEIGHT + 1) \notin {None, Raised}

\* C17: the start offset save_chunk computes for a chunk, before clipping, is
\* the byte offset of height index*CHUNK from the forkpoint under the
\* piecewise layout, and when that height precedes the forkpoint the bytes
\* clipped are the records of the heights index*CHUNK .. forkpoint-1; stated
\* for the chains and chunks that pass verify_chunk and reach the
\* computation.
C17_ChunkOffset ==
    \A b \in Registered : \A idx \in 0..(MaxHeight \div CHUNK) :
        (/\ ~(idx < NumCheckpoints /\ chains[b].parent # 0)
         /\ \E data \in ChunksFor(World, b, idx) : verify_chunk(World, b, idx, data)) =>
            chunk_delta_bytes(chains[b].forkpoint, idx)
                = layout_bytes(chains[b].forkpoint, idx * CHUNK)
                  - layout_bytes(idx * CHUNK, chains[b].forkpoint)

\* C18: save_chunk inside the checkpoint region on a chain with a parent
\* writes to the file of the main chain only: the chain's own metadata, every
\* file but the main chain's, every other object and the registry are as
\* before.
C18_Delegated ==
    [][(/\ last'.op = "connect_chunk"
        /\ last'.err = ""
        /\ last'.idx < NumCheckpoints
        /\ chains[last'.b].parent # 0) =>
          /\ chains'[last'.b] = chains[last'.b]
          /\ DOMAIN files' = DOMAIN files
          /\ \A p \in DOMAIN files : p # MainPath => files'[p] = files[p]
          /\ Len(chains') = Len(chains)
          /\ \A c \in 1..Len(chains) : chains[c].parent # 0 => chains'[c] = chains[c]
          /\ blockchains' = blockchains]_vars

\* a chunk of the checkpoint region has been saved through a chain that has
\* a parent
C18_ThroughFork ==
    /\ last.op = "connect_chunk"
    /\ last.err = ""
    /\ last.idx < NumCheckpoints
    /\ chains[last.b].parent # 0
    /\ files[MainPath] # Zeros(Len(files[MainPath]))

\* C19: a chunk saved inside the checkpoint region never shortens the file or
\* size() of the main chain; a chunk saved outside it leaves the file ending
\* with the written chunk, and no header in it above the chunk's last height.
C19_Truncation ==
    [][(last'.op = "connect_chunk" /\ last'.err = "") =>
          IF last'.idx < NumCheckpoints
          THEN /\ getsize(WorldNext, MainPath) >= getsize(World, MainPath)
               /\ \A c \in 1..Len(chains) :
                     chains[c].parent = 0 => size(WorldNext, c) >= size(World, c)
          ELSE /\ \A h \in 0..(MaxHeight + 1) :
                     (h > chunk_last(last'.idx, last'.len) /\ h >= chains'[last'.b].forkpoint)
                        => read_header(WorldNext, last'.b, h) = None
               /\ last'.swaps = 0 =>
                     getsize(WorldNext, path(World, last'.b))
                        = Max(0, chunk_delta_bytes(chains[last'.b].forkpoint, last'.idx))
                          + Max(0, last'.len
                                   + Min(0, chunk_delta_bytes(chains[last'.b].forkpoint,
                                                              last'.idx)))]_vars

\* a chunk saved above the checkpoint region has cut off headers the chain
\* held above the chunk's last height
C19_CutOff ==
    /\ last.op = "connect_chunk"
    /\ last.err = ""
    /\ last.idx >= NumCheckpoints
    /\ last.had > chunk_last(last.idx, last.len)
    /\ height(World, last.b) = chunk_last(last.idx, last.len)

\* C20: in a swap step the offset into the parent's file and the number of
\* bytes read from it are the byte position of height forkpoint in the
\* parent's file and the byte length of the parent's records of the heights
\* forkpoint .. parent.height() under the piecewise layout; stated for the
\* chains that pass both tests of _swap_with_parent.
C20_SwapRange ==
    \A b \in Registered :
        (/\ chains[b].parent # 0
         /\ Work(World, chains[b].parent) >= 0
         /\ Work(World, b) > Work(World, chains[b].parent)) =>
            /\ swap_offset(chains[b].forkpoint, chains[chains[b].parent].forkpoint)
                  = layout_bytes(chains[chains[b].parent].forkpoint, chains[b].forkpoint)
            /\ swap_length(chains[b].forkpoint, height(World, chains[b].parent))
                  = layout_bytes(chains[b].forkpoint, height(World, chains[b].parent) + 1)


\* the lock thread t is waiting for or about to take, -1 when there is none
Waits(t) ==
    IF threads[t].at \in {"enter", "self_lock"} THEN threads[t].b
    ELSE IF threads[t].at = "registry_lock" THEN REGISTRY_LOCK
    ELSE IF threads[t].at = "parent_lock" /\ threads[t].par # 0 THEN threads[t].par
    ELSE IF threads[t].at = "swap" /\ chains[threads[t].b].parent # 0
         THEN chains[threads[t].b].parent
    ELSE -1

Blocked(t) == Waits(t) # -1 /\ ~Free(t, Waits(t))

\* C12: a thread holding several locks took them in the order parent's lock,
\* the chain's own lock, the registry lock: among the locks it holds, no
\* chain's lock comes before the lock of that chain's parent, and the
\* registry lock comes before no chain's lock.
C12_LockOrder ==
    \A t \in Threads : \A i, j \in 1..Len(threads[t].stack) :
        i < j =>
          /\ threads[t].stack[i] # REGISTRY_LOCK
          /\ threads[t].stack[j] # REGISTRY_LOCK =>
                chains[threads[t].stack[i]].parent # threads[t].stack[j]

\* C13: threads calling save_header, save_chunk and read_header on a chain
\* and its forks never reach a state in which every one of them waits for a
\* lock that another holds.
C13_NoDeadlock == ~(\A t \in Threads : Blocked(t))


(***************************************************************************)
(* Swap steps.  _swap_with_parent runs on the world save_header leaves     *)
(* after its write, on the world a swap step before it left, and on the    *)
(* world as it is when swap_with_parent is called by itself.               *)
(***************************************************************************)
\* the worlds in which chain b can be at the call of swap_with_parent
WrittenWorlds(b) ==
    {World} \cup {header_write(World, b, hd).w :
                    hd \in {x \in HeadersFor(World, b, height(World, b) + 1) :
                               can_connect(World, b, x, TRUE)}}

\* the worlds a swap step of chain b can start from
StepWorlds(b) ==
    WrittenWorlds(b) \cup {swap_step(m, b).w : m \in WrittenWorlds(b)}

\* the step with outcome r from world m exchanged child c and its parent p
Swapped(m, r, c) == m.chains[c].parent # 0 /\ r.err = "" /\ r.swapped

\* both objects hold after the step the headers they held before it
HeadersKept(m, r, c, p) ==
    /\ \A h \in m.chains[c].forkpoint..height(m, c) :
          read_header(r.w, c, h) = read_header(m, c, h)
    /\ \A h \in m.chains[c].forkpoint..height(m, p) :
          read_header(r.w, p, h) = read_header(m, p, h)
    /\ \A h \in m.chains[p].forkpoint..(m.chains[c].forkpoint - 1) :
          read_header(r.w, c, h) = read_header(m, p, h)

\* C21: a swap step keeps the headers of both objects: the child reads the
\* same header as before at every height from its old forkpoint to its old
\* height, the old parent at every height from the fork height to its old
\* height, and the parent's headers below the fork height are read through
\* the child.
C21_HeadersKept ==
    \A b \in Registered : \A m \in StepWorlds(b) : \A r \in {swap_step(m, b)} :
        Swapped(m, r, b) => HeadersKept(m, r, b, m.chains[b].parent)


\* the record chain p holds for height h, by the layout of its file; nothing
\* above its height
parent_record(m, p, h) ==
    IF exists(m, path(m, p)) /\ h <= height(m, p)
    THEN stored_record(m.files[path(m, p)], m.chains[p].forkpoint, h)
    ELSE <<>>

\* what a swap step is to leave in the two objects
Exchanged(m, r, c, p) ==
    /\ r.w.chains[c].parent = m.chains[p].parent
    /\ r.w.chains[p].parent = c
    /\ r.w.chains[c].forkpoint = m.chains[p].forkpoint
    /\ r.w.chains[p].forkpoint = m.chains[c].forkpoint
    /\ r.w.chains[c].prev_hash = m.chains[p].prev_hash
    /\ r.w.chains[p].prev_hash = m.chains[c].prev_hash
    /\ get_id(r.w, c) = get_id(m, p)
    /\ get_id(r.w, p) = sha256d(parent_record(m, p, m.chains[c].forkpoint))

\* C22: after a swap step of child c and parent p, c has p's old parent,
\* forkpoint, prev_hash and id, p has c as parent and c's old forkpoint and
\* prev_hash, and p's id is the hash of the first header of parent_data, the
\* record the parent held at the fork height.
C22_Exchanged ==
    \A b \in Registered : \A m \in StepWorlds(b) : \A r \in {swap_step(m, b)} :
        Swapped(m, r, b) => Exchanged(m, r, b, m.chains[b].parent)

\* a swap step of a fork of a fork, both above the Sapling height or not
C22_SwapDone ==
    \E b \in Registered : \E m \in StepWorlds(b) : \E r \in {swap_step(m, b)} :
        /\ Swapped(m, r, b)
        /\ m.chains[m.chains[b].parent].parent # 0
        /\ m.chains[b].forkpoint > m.chains[m.chains[b].parent].forkpoint
        /\ height(m, m.chains[b].parent) >= m.chains[b].forkpoint


\* every key of the registry of world w is the id of the chain it maps to
KeysAreIds(w) == \A k \in DOMAIN w.blockchains : get_id(w, w.blockchains[k]) = k

\* chain c of world w is in the registry under its id
RegisteredAs(w, c) ==
    get_id(w, c) \in DOMAIN w.blockchains /\ w.blockchains[get_id(w, c)] = c

\* C23: every registry key maps to a chain with that id, every chain object
\* alive is in the registry, and a swap step of two registered chains leaves
\* both registered under their new ids with no key that is not a chain's id.
C23_Registry ==
    /\ KeysAreIds(World)
    /\ \A c \in 1..Len(chains) : c \in Registered
    /\ \A b \in Registered : \A m \in StepWorlds(b) : \A r \in {swap_step(m, b)} :
          (Swapped(m, r, b) /\ RegisteredAs(m, b) /\ RegisteredAs(m, m.chains[b].parent))
            => /\ RegisteredAs(r.w, b)
               /\ RegisteredAs(r.w, m.chains[b].parent)
               /\ KeysAreIds(r.w)


(***************************************************************************)
(* The functions of targets and verify_header, called on arguments a       *)
(* caller may pass.  The chain holds the checkpointed headers; headers     *)
(* above it come in the dict `chain`.                                      *)
(***************************************************************************)
\* the first height after the checkpoints
AfterCheckpoints == NumCheckpoints * CHUNK

\* a header with the fields the checks read
FullHeader(hgt, prev, bits, nonce, timestamp) ==
    [Header(VersionAt(hgt), prev, 0, hgt) EXCEPT !.bits = bits, !.nonce = nonce,
                                                 !.timestamp = timestamp]

\* compact values: of 0x8000, of a multiple of the target timespan, of
\* 0xffff, of a target above MAX_TARGET, and one bits_to_target refuses
BitsValues == {50364416, 50396928, 50397183, 67141632, 0}

\* heights on both sides of every bound verify_header and get_target test
TestHeights ==
    {-1, 0, 1, CHUNK, AfterCheckpoints - 1, AfterCheckpoints, nAverageBlocks,
     nAverageBlocks + 1, 20, 21, 22, 26, AfterCheckpoints + SkipWindow,
     AfterCheckpoints + SkipWindow + 1, AfterCheckpoints + WarmUp - 1,
     AfterCheckpoints + WarmUp, AfterCheckpoints + WarmUp + 1,
     AfterCheckpoints + WarmUp + CHUNK}

VerifyCalls ==
    {[NoCalc EXCEPT !.fn = "verify_header",
                    !.header = FullHeader(hgt, prev, bits, nonce, 0),
                    !.prev_hash = prev_hash, !.target = target,
                    !.expected = IF given = 0 THEN NoneHash
                                 ELSE IF given = 1 THEN HASH_EMPTY
                                 ELSE hash_header(FullHeader(hgt, prev, bits, nonce, 0))] :
       hgt \in TestHeights \ {-1}, prev \in {ZERO_HASH}, bits \in {50364416, 50397183},
       nonce \in {0, 32768, 32769}, prev_hash \in {ZERO_HASH, HASH_EMPTY},
       target \in {0, 32768, 65535},
       given \in 0..2}

\* differences between the median of the last eleven timestamps and the one
\* the 60 s spacing gives, around the bounds of the damping and the clamp
Shifts ==
    {-1020, -700} \cup (-660..-652) \cup (-9..9) \cup (1300..1308) \cup {2000}

\* the bits of the header at height k: b everywhere, or b at even heights
\* and the bits of 0xffff at odd heights
BitsAt(k, b, mixed) == IF mixed /\ k % 2 = 1 THEN 50397183 ELSE b

\* the headers below hgt a caller holds: spaced 60 s, the last eleven shifted
ChainBelow(hgt, b, mixed, shift) ==
    [k \in Max(0, hgt - (WarmUp + 1))..(hgt - 1) |->
        FullHeader(k, ZERO_HASH, BitsAt(k, b, mixed), 0,
                   100000 + 60 * k + (IF k >= hgt - nMedianTimeSpan THEN shift ELSE 0))]

TargetCalls(fn) ==
    {[NoCalc EXCEPT !.fn = fn, !.h = hgt, !.chain = ChainBelow(hgt, b, mixed, shift)] :
       hgt \in TestHeights, b \in BitsValues, mixed \in BOOLEAN, shift \in Shifts}
    \cup {[NoCalc EXCEPT !.fn = fn, !.h = hgt] : hgt \in TestHeights}

\* compact values on both sides of the bounds of exponent and mantissa
BitsCalls ==
    {[NoCalc EXCEPT !.fn = "bits", !.bits = e * Pow2(24) + m] :
       e \in (0..33) \cup {127},
       m \in {0, 1, 32767, 32768, 32769, 65535, 65536, 8388607, 8388608, 16777215}}

InitTargets ==
    /\ testnet \in BOOLEAN
    /\ StartWorld(InitWorld(Zeros(get_delta_bytes(max_checkpoint + 1) \div BLOCK)))
    /\ calc \in VerifyCalls \cup TargetCalls("get_target")
                \cup TargetCalls("get_target_koto") \cup BitsCalls

Returns(out) ==
    /\ ~calc.done
    /\ calc' = [calc EXCEPT !.done = TRUE, !.out = out]
    /\ UNCHANGED <<testnet, chains, files, blockchains, cache, last, ops, threads>>

VerifyHeader ==
    /\ calc.fn = "verify_header"
    /\ Returns(verify_header(calc.header, calc.prev_hash, calc.target, calc.expected))

GetTarget ==
    /\ calc.fn = "get_target"
    /\ Returns(get_target(World, 1, calc.h, calc.chain))

GetTargetKoto ==
    /\ calc.fn = "get_target_koto"
    /\ Returns(get_target_koto(World, 1, calc.h, calc.chain))

\* target_to_bits(bits_to_target(bits))
BitsRoundTrip ==
    /\ calc.fn = "bits"
    /\ Returns(IF bits_to_target_bytes(calc.bits) = <<>> THEN RAISED
               ELSE target_to_bits_bytes(bits_to_target_bytes(calc.bits)))

NextTargets == VerifyHeader \/ GetTarget \/ GetTargetKoto \/ BitsRoundTrip

SpecTargets == InitTargets /\ [][NextTargets]_vars


Verified == calc.fn = "verify_header" /\ calc.done
Bypassed(hgt) == hgt \in {20, 22, 26}

\* C24: verify_header returns without raising for every header of height
\* 20, 22 or 26, whatever its hash, prev_block_hash, bits or proof of work.
C24_Bypass == (Verified /\ Bypassed(calc.header.block_height)) => calc.out = TRUE

\* a header of a bypass height accepted with another prev_hash and another id
\* than the caller expects
C24_WrongAccepted ==
    /\ Verified
    /\ Bypassed(calc.header.block_height)
    /\ calc.prev_hash # calc.header.prev_block_hash
    /\ calc.expected # NoneHash
    /\ calc.expected # hash_header(calc.header)
    /\ calc.out = TRUE

\* the heights at which verify_header checks neither bits nor proof of work
Unchecked(hgt) ==
    \/ hgt % CHUNK # 0 /\ hgt \div CHUNK < NumCheckpoints
    \/ AfterCheckpoints <= hgt /\ hgt <= AfterCheckpoints + SkipWindow

IdChecks ==
    /\ (calc.expected # NoneHash /\ calc.expected # hash_header(calc.header))
          => calc.out = FALSE
    /\ calc.header.prev_block_hash # calc.prev_hash => calc.out = FALSE

WorkChecks ==
    (calc.out = TRUE) => /\ target_to_bits(calc.target) = calc.header.bits
                         /\ getPoWHash(calc.header) <= calc.target

C26_GetTarget ==
    (calc.fn = "get_target" /\ calc.done /\ ~TESTNET)
      => /\ calc.h = -1 => calc.out = MAX_TARGET
         /\ (calc.h >= 0 /\ calc.h \div CHUNK < NumCheckpoints /\ calc.h % CHUNK = 0)
              => calc.out = CHECKPOINTS[calc.h \div CHUNK][2]
         /\ (calc.h >= 0 /\ calc.h \div CHUNK < NumCheckpoints /\ calc.h % CHUNK # 0)
              => calc.out = 0
         /\ calc.h \div CHUNK >= NumCheckpoints
              => calc.out = get_target_koto(World, 1, calc.h, calc.chain)

C26_AtCheckpoint ==
    /\ calc.fn = "get_target" /\ calc.done /\ ~TESTNET
    /\ calc.h = 0
    /\ calc.out = CHECKPOINTS[0][2]

\* C27: get_target_koto(height) is MAX_TARGET whenever height <= 17.
C27_EarlyMax ==
    (calc.fn = "get_target_koto" /\ calc.done /\ calc.h <= nAverageBlocks)
      => calc.out = MAX_TARGET


\* the quotient of d by 4 rounded toward zero
TruncQuarter(d) == IF d >= 0 THEN d \div 4 ELSE 0 - ((0 - d) \div 4)

RECURSIVE SumOfTargets(_, _, _)
\* the sum of the targets of the n headers of chain from height hgt down
SumOfTargets(chain, hgt, n) ==
    IF n = 0 THEN 0
    ELSE bits_to_target(chain[hgt].bits) + SumOfTargets(chain, hgt - 1, n - 1)

\* get_target_koto was called above the warm-up heights with a dict holding
\* the headers it reads, all with bits that are compact targets
Retargeted ==
    /\ calc.fn = "get_target_koto" /\ calc.done
    /\ calc.h >= AfterCheckpoints + WarmUp
    /\ calc.chain # <<>>
    /\ \A k \in (calc.h - nAverageBlocks)..(calc.h - 1) :
           bits_to_target(calc.chain[k].bits) # RAISED

\* the difference of the two median timestamps
ActualTimespan ==
    get_median_timestamp(World, 1, calc.h - 1, calc.chain)
      - get_median_timestamp(World, 1, calc.h - 1 - nAverageBlocks, calc.chain)

\* C28: the damped timespan is 1020 + trunc((actual - 1020) / 4), clamped
\* into [856, 1346], and the target returned is ((sum of targets // 17) //
\* 1020) * clamped timespan capped at MAX_TARGET, never above MAX_TARGET.
C28_Retarget ==
    Retargeted =>
      /\ calc.out = Min(((SumOfTargets(calc.chain, calc.h - 1, 17) \div 17) \div 1020)
                          * Min(Max(1020 + TruncQuarter(ActualTimespan - 1020), 856), 1346),
                        MAX_TARGET)
      /\ calc.out <= MAX_TARGET

\* a timespan short of the target timespan by an amount 4 does not divide,
\* inside the clamp, and a target below MAX_TARGET
C28_DampedBelow ==
    /\ Retargeted
    /\ ActualTimespan - 1020 < 0
    /\ (ActualTimespan - 1020) % 4 # 0
    /\ 1020 + TruncQuarter(ActualTimespan - 1020) > 856
    /\ calc.out < MAX_TARGET

\* the 17 headers below the height carry the same bits, of a target of at
\* most MAX_TARGET, and the headers of the dict are 60 s apart
Steady ==
    /\ Retargeted
    /\ \A k \in (calc.h - nAverageBlocks)..(calc.h - 1) :
           calc.chain[k].bits = calc.chain[calc.h - 1].bits
    /\ bits_to_target(calc.chain[calc.h - 1].bits) <= MAX_TARGET
    /\ \A k \in DOMAIN calc.chain :
           (k + 1) \in DOMAIN calc.chain
             => calc.chain[k + 1].timestamp - calc.chain[k].timestamp = 60

\* C29 as stated: in the steady state get_target_koto returns exactly the
\* target T of the headers.
C29_Steady == Steady => calc.out = bits_to_target(calc.chain[calc.h - 1].bits)

\* C29: in the steady state, the 28 headers below the height being of height
\* 1 or more, get_target_koto returns (T // 1020) * 1020, the target T of the
\* headers rounded down to a multiple of the target timespan.
C29_SteadyRounded ==
    (Steady /\ calc.h - WarmUp >= 1) => calc.out = (bits_to_target(calc.chain[calc.h - 1].bits) \div 1020) * 1020

\* a steady state whose target is no multiple of the target timespan
C29_SteadyBelow ==
    /\ Steady
    /\ bits_to_target(calc.chain[calc.h - 1].bits) % 1020 # 0
    /\ calc.out < bits_to_target(calc.chain[calc.h - 1].bits)

\* the compact value is one bits_to_target accepts
ValidBits(bits) ==
    /\ 3 <= (bits \div 16777216) % 256 /\ (bits \div 16777216) % 256 <= 31
    /\ 32768 <= bits % 16777216 /\ bits % 16777216 <= 8388607

\* C30: target_to_bits(bits_to_target(b)) = b for every compact value b with
\* exponent in [0x03, 0x1f] and mantissa in [0x8000, 0x7fffff], and
\* bits_to_target fails for every other b; where the target is below 2^31
\* the functions on integers give what the functions on bytes give.
C30_RoundTrip ==
    (calc.fn = "bits" /\ calc.done)
      => /\ ValidBits(calc.bits) => calc.out = calc.bits
         /\ ~ValidBits(calc.bits) => calc.out = RAISED /\ bits_to_target(calc.bits) = RAISED
         /\ (ValidBits(calc.bits) /\ calc.bits \div 16777216 <= 4)
              => /\ to_bytes(bits_to_target(calc.bits)) = bits_to_target_bytes(calc.bits)
                 /\ target_to_bits(bits_to_target(calc.bits)) = calc.out

\* a round trip through the largest exponent, and one whose mantissa has a
\* zero first byte
C30_Largest ==
    /\ calc.fn = "bits" /\ calc.done
    /\ calc.bits = 31 * 16777216 + 32768
    /\ calc.out = calc.bits


\* the outcome r of connect_chunk(idx, data) on chain b: a result, True only
\* when verify_chunk and save_chunk completed, and nothing changed when
\* verify_chunk failed
ChunkOutcome(r, b, idx, data) ==
    /\ r.err \in {"", "False"}
    /\ r.err = "" <=> (verify_chunk(World, b, idx, data)
                        /\ save_chunk(World, b, idx, data).err = "")
    /\ ~verify_chunk(World, b, idx, data) => r.w = World

\* C31 as stated: connect_chunk never raises, whatever the index, in any
\* state in which a call is made: it returns
\* True only if verify_chunk and save_chunk both completed and False
\* otherwise, and a failure of verify_chunk leaves the file, the size and the
\* registry as they were.
C31_NeverRaises ==
    /\ last.op = "connect_chunk" => last.err \in {"", "False"}
    /\ ops < MaxOps => \A b \in Registered : \A idx \in 0..(MaxHeight \div CHUNK) :
          \A data \in ChunkCalls(World, b, idx) :
             ChunkOutcome(connect_chunk(World, b, idx, data), b, idx, data)

\* C31: connect_chunk with an index of 0 or more never raises, in any state
\* in which a call is made: it returns
\* True only if verify_chunk and save_chunk both completed and False
\* otherwise, and a failure of verify_chunk leaves the file, the size and the
\* registry as they were; with an index below 0 it raises AssertionError and
\* changes nothing.
C31_Caught ==
    /\ last.op = "connect_chunk" => last.err \in {"", "False", "AssertionError"}
    /\ ops < MaxOps => \A b \in Registered :
          /\ \A idx \in 0..(MaxHeight \div CHUNK) :
                \A data \in ChunkCalls(World, b, idx) :
                   ChunkOutcome(connect_chunk(World, b, idx, data), b, idx, data)
          /\ \A data \in ChunkCalls(World, b, -1) :
                /\ connect_chunk(World, b, -1, data).err = "AssertionError"
                /\ connect_chunk(World, b, -1, data).w = World

\* connect_chunk has returned False in a state where a chunk offered to the
\* chain passes verify_chunk and fails in save_chunk
C31_SaveFailed ==
    /\ last.op = "connect_chunk"
    /\ last.err = "False"
    /\ last.b \in Registered
    /\ \E idx \in 0..(MaxHeight \div CHUNK) :
          \E data \in ChunkCalls(World, last.b, idx) :
             /\ verify_chunk(World, last.b, idx, data)
             /\ save_chunk(World, last.b, idx, data).err # ""


\* the world read_blockchains leaves, with the files it found
FoundWorld == [chains |-> chains', files |-> files, blockchains |-> blockchains',
               cache |-> cache']

\* the first header of the fork file p read as a chain with parent c
FirstHeader(p, c) ==
    read_header(chain_of_file(FoundWorld, p, c), Len(chains') + 1, p[1])

\* the fork file p passes the checks of read_blockchains: it lies above the
\* max checkpoint, a chain of the registry has the hash prev at the height
\* below its forkpoint, its first header hashes to first and connects to that
\* chain whatever the chain's height
FileChecks(p) ==
    /\ p[1] > max_checkpoint
    /\ \E k \in DOMAIN blockchains' :
          /\ path(WorldNext, blockchains'[k]) # p
          /\ check_hash(FoundWorld, blockchains'[k], p[1] - 1, p[2])
          /\ hash_header(FirstHeader(p, blockchains'[k])) = p[3]
          /\ can_connect(FoundWorld, blockchains'[k], FirstHeader(p, blockchains'[k]), FALSE)

\* C32: after read_blockchains the registry holds the main chain under the
\* genesis id; every chain registered besides it is the chain of a fork file
\* found that passes the checks; every fork file found that fails one of the
\* checks is deleted and no chain of the registry has its path.
C32_ReadBlockchains ==
    [][last'.op = "read_blockchains" =>
          /\ last'.err = ""
          /\ GENESIS \in DOMAIN blockchains'
          /\ chains'[blockchains'[GENESIS]].parent = 0
          /\ chains'[blockchains'[GENESIS]].forkpoint = 0
          /\ \A k \in DOMAIN blockchains' \ {GENESIS} :
                /\ chains'[blockchains'[k]].parent # 0
                /\ path(WorldNext, blockchains'[k]) \in ForkPaths(files)
                /\ FileChecks(path(WorldNext, blockchains'[k]))
          /\ \A p \in ForkPaths(files) :
                ~FileChecks(p) =>
                   /\ p \notin DOMAIN files'
                   /\ \A k \in DOMAIN blockchains' : path(WorldNext, blockchains'[k]) # p]_vars

\* the program has started on a directory with two fork files above the max
\* checkpoint, registered one and deleted the other
C32_OneOfTwo ==
    /\ last.op = "read_blockchains"
    /\ last.had = 2
    /\ last.idx = 0
    /\ Cardinality(DOMAIN blockchains) = 2
    /\ Cardinality(ForkPaths(files)) = 1


\* the heights get_hash is asked for: -1 below the first header, and the
\* heights of headers up to one above the highest
HashHeights == (-1)..(MaxHeight + 1)

\* C33: for every chain of the registry and every height from -1 on,
\* get_hash(h) is the all-zero hash at -1, the genesis hash at 0, the hash of
\* the checkpoint of the chunk ending at h for every h <= max_checkpoint with
\* (h + 1) % 2016 = 0, whatever the file holds there, and at any other height
\* MissingHeader is raised when read_header(h) is None and the hash of the
\* header read is returned otherwise.
C33_GetHash ==
    \A b \in Registered : \A h \in HashHeights :
        IF h = -1 THEN get_hash(World, b, h) = ZERO_HASH
        ELSE IF h = 0 THEN get_hash(World, b, h) = GENESIS
        ELSE IF h <= max_checkpoint /\ (h + 1) % CHUNK = 0
             THEN get_hash(World, b, h) = CHECKPOINTS[(h + 1) \div CHUNK - 1][1]
        ELSE /\ read_header(World, b, h) = None => get_hash(World, b, h) = MISSING
             /\ read_header(World, b, h) \notin {None, Raised}
                   => get_hash(World, b, h) = hash_header(read_header(World, b, h))

\* a fork chain is asked for the hash at a checkpoint height where the file
\* of the main chain is zero-filled, and for a height above its last header
C33_ZeroFilled ==
    \E b \in Registered :
        /\ chains[b].parent # 0
        /\ read_header(World, b, max_checkpoint) = None
        /\ get_hash(World, b, max_checkpoint) = hash_header(CanonHeader(max_checkpoint))
        /\ get_hash(World, b, height(World, b) + 1) = MISSING


(***************************************************************************)
(* The header codec on bytes.  A header is written as 80 or 112 bytes: the *)
(* version, timestamp, bits and nonce as 4 bytes each, lowest byte first,  *)
(* the hashes as 32 bytes each in the reverse of the order of their hex    *)
(* digits.  A hash is known by its value as a number.                      *)
(***************************************************************************)
RECURSIVE little_endian(_, _)
\* int_to_hex(i, length), and rev_hex of a hash of that value
little_endian(i, length) ==
    IF length = 0 THEN <<>>
    ELSE <<i % 256>> \o little_endian(i \div 256, length - 1)

RECURSIVE hex_to_int(_)
\* int.from_bytes(s, byteorder='little'), and hash_encode as a value
hex_to_int(s) ==
    IF Len(s) = 0 THEN 0
    ELSE IF hex_to_int(Tail(s)) = 0 THEN s[1]
    ELSE s[1] + 256 * hex_to_int(Tail(s))

\* serialize_header writing finalsapling_root from version 4 on
serialize_header_early_root(header) ==
    little_endian(header.version, 4)
      \o little_endian(header.prev_block_hash, 32)
      \o little_endian(header.merkle_root, 32)
      \o little_endian(header.timestamp, 4)
      \o little_endian(header.bits, 4)
      \o little_endian(header.nonce, 4)
      \o (IF header.version >= 4 THEN little_endian(Max(header.finalsapling_root, 0), 32)
          ELSE <<>>)

serialize_header_bytes(header) ==
    little_endian(header.version, 4)
      \o little_endian(header.prev_block_hash, 32)
      \o little_endian(header.merkle_root, 32)
      \o little_endian(header.timestamp, 4)
      \o little_endian(header.bits, 4)
      \o little_endian(header.nonce, 4)
      \o (IF header.version >= 5 THEN little_endian(header.finalsapling_root, 32)
          ELSE <<>>)

\* the header parsed, Raised for InvalidHeader; a version of 5 or more read
\* from 80 bytes finds no bytes for finalsapling_root
deserialize_header_bytes(s, hgt) ==
    IF Len(s) = 0 THEN Raised
    ELSE IF hgt < SAPLING_HEIGHT /\ Len(s) # HEADER_SIZE THEN Raised
    ELSE IF hgt >= SAPLING_HEIGHT /\ Len(s) # HEADER_SIZE_SAPLING THEN Raised
    ELSE [version |-> hex_to_int(SubSeq(s, 1, 4)),
          prev_block_hash |-> hex_to_int(SubSeq(s, 5, 36)),
          merkle_root |-> hex_to_int(SubSeq(s, 37, 68)),
          timestamp |-> hex_to_int(SubSeq(s, 69, 72)),
          bits |-> hex_to_int(SubSeq(s, 73, 76)),
          nonce |-> hex_to_int(SubSeq(s, 77, 80)),
          finalsapling_root |-> IF hex_to_int(SubSeq(s, 1, 4)) >= 5
                                THEN hex_to_int(SubSeq(s, 81, Len(s)))
                                ELSE Absent,
          block_height |-> hgt]

\* a call of the codec: the header or the bytes given, the height, and the
\* bytes and the header that came out
NoCodec == [fn |-> "", header |-> None, h |-> 0, raw |-> <<>>, done |-> FALSE, res |-> None]

\* headers with fields of one and of several bytes, of the versions before
\* and from Sapling
CodecHeaders ==
    {[version |-> v, prev_block_hash |-> prev, merkle_root |-> merkle,
      timestamp |-> ts, bits |-> bits, nonce |-> nonce,
      finalsapling_root |-> IF v >= 5 THEN root ELSE Absent, block_height |-> hgt] :
       v \in {1, 4, 5, 6, 536870917}, prev \in {0, 16909060}, merkle \in {1, 197121},
       ts \in {0, 1600000000}, bits \in {50364416, 520617983}, nonce \in {0, 258},
       root \in {0, 772}, hgt \in {0, SAPLING_HEIGHT - 1, SAPLING_HEIGHT, SAPLING_HEIGHT + 1}}

\* byte strings of the two header lengths and of the lengths next to them,
\* zero or with the low bytes of the fields set
CodecBytes ==
    {[k \in 1..n |-> IF k = 1 THEN v
                     ELSE IF k \in {5, 6, 37, 69, 70, 73, 77, 81} THEN fill ELSE 0] :
       n \in {0, 1, HEADER_SIZE - 1, HEADER_SIZE, HEADER_SIZE + 1,
              HEADER_SIZE_SAPLING - 1, HEADER_SIZE_SAPLING, HEADER_SIZE_SAPLING + 1},
       v \in {4, 5}, fill \in {0, 3}}

InitCodec ==
    /\ testnet \in BOOLEAN
    /\ StartWorld(InitWorld(Zeros(get_delta_bytes(max_checkpoint + 1) \div BLOCK)))
    /\ calc \in {[NoCodec EXCEPT !.fn = "round_trip", !.header = hd, !.h = hd.block_height] :
                    hd \in CodecHeaders}
                \cup {[NoCodec EXCEPT !.fn = "deserialize_header", !.raw = s, !.h = hgt] :
                        s \in CodecBytes,
                        hgt \in {0, SAPLING_HEIGHT - 1, SAPLING_HEIGHT, SAPLING_HEIGHT + 1}}

Decoded(raw, res) ==
    /\ ~calc.done
    /\ calc' = [calc EXCEPT !.done = TRUE, !.raw = raw, !.res = res]
    /\ UNCHANGED <<testnet, chains, files, blockchains, cache, last, ops, threads>>

\* deserialize_header(bfh(serialize_header(header)), height of the header)
HeaderRoundTrip ==
    /\ calc.fn = "round_trip"
    /\ Decoded(serialize_header_bytes(calc.header),
               deserialize_header_bytes(serialize_header_bytes(calc.header), calc.h))

DeserializeHeader ==
    /\ calc.fn = "deserialize_header"
    /\ Decoded(calc.raw, deserialize_header_bytes(calc.raw, calc.h))

NextCodec == HeaderRoundTrip \/ DeserializeHeader

SpecCodec == InitCodec /\ [][NextCodec]_vars

\* C34: deserialize_header(s, height) fails with InvalidHeader when s is
\* empty, when height < SAPLING_HEIGHT and s is not of 80 bytes, and when
\* height >= SAPLING_HEIGHT and s is not of 112 bytes; for a header of a
\* version below 5 at a height below SAPLING_HEIGHT, or of a version of 5 or
\* more at a height from SAPLING_HEIGHT on, deserializing the bytes of
\* serialize_header at the header's height returns the header.
C34_HeaderCodec ==
    /\ (calc.fn = "deserialize_header" /\ calc.done) =>
          ((\/ Len(calc.raw) = 0
            \/ calc.h < SAPLING_HEIGHT /\ Len(calc.raw) # 80
            \/ calc.h >= SAPLING_HEIGHT /\ Len(calc.raw) # 112) => calc.res = Raised)
    /\ (calc.fn = "round_trip" /\ calc.done) =>
          /\ (calc.header.version < 5 /\ calc.h < SAPLING_HEIGHT) =>
                (Len(calc.raw) = 80 /\ calc.res = calc.header)
          /\ (calc.header.version >= 5 /\ calc.h >= SAPLING_HEIGHT) =>
                (Len(calc.raw) = 112 /\ calc.res = calc.header)
          /\ (calc.header.version < 5 <=> calc.h >= SAPLING_HEIGHT) => calc.res = Raised

\* a Sapling header whose fields take several bytes has come back from its
\* 112 bytes
C34_SaplingBack ==
    /\ calc.fn = "round_trip" /\ calc.done
    /\ calc.header.version >= 5
    /\ calc.header.prev_block_hash # calc.header.merkle_root
    /\ calc.header.prev_block_hash > 65536
    /\ calc.header.finalsapling_root > 256
    /\ calc.header.nonce > 256
    /\ calc.res = calc.header

\* C39: every step of _swap_with_parent within one call of swap_with_parent
\* that exchanges the files, the second and later ones with the parent the
\* chain has by then included, is taken by a thread that holds the lock of
\* the chain and the lock of the chain's parent of that moment.
C39_StepLocked ==
    [][\A t \in Threads :
          (/\ threads[t].at = "swap"
           /\ threads'[t] # threads[t]
           /\ chains[threads[t].b].parent # 0
           /\ files' # files)
            => (/\ Holds(t, threads[t].b)
                /\ Holds(t, chains[threads[t].b].parent))]_vars

\* the outcome r of fork(parent, header) whose new chain is object n: the
\* registration assertion did not fail, and when fork returned the new chain
\* is in the registry under its id and the parent under its own
ForkOutcome(r, parent, n) ==
    /\ r.err # "AssertionError"
    /\ r.err = "" => (RegisteredAs(r.w, n) /\ RegisteredAs(r.w, parent))

\* C40: fork(parent, header) with a header that connects to the parent, lies
\* above the checkpoints and is not the first header of a registered chain,
\* called in a state whose registry keys are the ids of their chains, never
\* fails the assertion 'chain_id not in blockchains', and when it returns the
\* new chain is registered under its get_id() and the parent is still
\* registered under its own id, also when the save_header inside fork swaps
\* the new chain with the parent.
C40_ForkRegisters ==
    (ops < MaxOps /\ Len(chains) < MaxChains /\ KeysAreIds(World))
      => \A parent \in Registered : \A h \in Heights :
            \A header \in ForkHeadersFor(World, parent, h) :
               (/\ can_connect(World, parent, header, FALSE)
                /\ h > max_checkpoint
                /\ hash_header(header) \notin DOMAIN blockchains)
                 => ForkOutcome(fork(World, parent, header), parent, Len(chains) + 1)

(***************************************************************************)
(* The transaction codec of transaction.py.  A transaction is a sequence   *)
(* of bytes.  A number read by struct.unpack_from is kept as its 16-bit    *)
(* words, lowest first, so that the 32-bit and 64-bit fields keep their    *)
(* width: the version word has its top bit in the second word, an output   *)
(* value its sign in the fourth.                                           *)
(***************************************************************************)
\* s[a:b] of Python for 0 <= a
slice(s, a, b) == SubSeq(s, Min(a, Len(s)) + 1, Min(b, Len(s)))

Reverse(s) == [k \in 1..Len(s) |-> s[Len(s) + 1 - k]]

\* struct.unpack of a little-endian number of 1, 2, 4 or 8 bytes
unpack(s) ==
    IF Len(s) = 1 THEN <<s[1]>>
    ELSE [k \in 1..(Len(s) \div 2) |-> s[2 * k - 1] + 256 * s[2 * k]]

\* int_to_hex(i, length) of a number kept as words
int_to_hex(v) ==
    [k \in 1..(2 * Len(v)) |-> IF k % 2 = 1 THEN v[(k + 1) \div 2] % 256
                               ELSE v[k \div 2] \div 256]

\* a small number as the words of a field of that many bytes
as_words(i, length) == unpack(little_endian(i, length))

RECURSIVE greater(_, _)
\* a > b for two numbers of as many words, neither negative
greater(a, b) ==
    IF Len(a) = 0 THEN FALSE
    ELSE IF a[Len(a)] # b[Len(b)] THEN a[Len(a)] > b[Len(b)]
    ELSE greater(SubSeq(a, 1, Len(a) - 1), SubSeq(b, 1, Len(b) - 1))

\* the sign of a number read as '<q'
negative(v) == v[Len(v)] >= 32768

\* TOTAL_COIN_SUPPLY_LIMIT_IN_BTC * COIN, 21000000 * 100000000
TOTAL_COIN_SUPPLY_LIMIT == <<16384, 23047, 30192, 7>>

\* var_int(i) for a length below 2^16
var_int(i) ==
    IF i < 253 THEN <<i>> ELSE <<253>> \o little_endian(i, 2)

PARTIAL_TXN_HEADER_MAGIC == <<69, 80, 84, 70, 255>>

\* the keys deserialize() may set in d, with the values of a d that has none
NoFields ==
    [keys |-> {}, partial |-> FALSE, overwintered |-> FALSE, version |-> 0,
     versionGroupId |-> <<>>, saplinged |-> FALSE, segwit_ser |-> 0,
     inputs |-> <<>>, outputs |-> <<>>, lockTime |-> <<>>, expiryHeight |-> <<>>,
     saplingRaw |-> <<>>, valueBalance |-> <<>>, shieldedSpend |-> <<>>,
     shieldedOutput |-> <<>>, joinSplitsRaw |-> <<>>, n_JSDescs |-> 0,
     joinSplits |-> <<>>, joinSplitPubKey |-> <<>>, joinSplitSig |-> <<>>,
     bindingSig |-> <<>>]

\* BCDataStream after write(_bytes), with the exception raised while reading,
\* the compact size read last, the dict being filled and the item being parsed
BCDataStream(bytes) ==
    [input |-> bytes, read_cursor |-> 0, err |-> "", n |-> 0, d |-> NoFields,
     item |-> <<>>, full_parse |-> FALSE, header |-> <<>>,
     n_ShieldedSpend |-> 0, n_ShieldedOutput |-> 0]

raise(r, e) == IF r.err # "" THEN r ELSE [r EXCEPT !.err = e]

set(d, key, v) == [d EXCEPT ![key] = v, !.keys = @ \cup {key}]

\* d[key] = vds.read_bytes(length): the slice may be short, the cursor moves
\* by length
read_bytes(r, key, length) ==
    IF r.err # "" THEN r
    ELSE [r EXCEPT !.read_cursor = @ + length,
                   !.d = set(@, key, slice(r.input, r.read_cursor, r.read_cursor + length))]

\* d[key] = vds._read_num(format) for a format of nbytes bytes
read_num(r, key, nbytes) ==
    IF r.err # "" THEN r
    ELSE IF r.read_cursor + nbytes > Len(r.input) THEN raise(r, "SerializationError")
    ELSE [r EXCEPT !.read_cursor = @ + nbytes,
                   !.d = set(@, key, unpack(slice(r.input, r.read_cursor, r.read_cursor + nbytes)))]

\* the same two reads into the item being parsed
item_bytes(r, key, length) ==
    IF r.err # "" THEN r
    ELSE [r EXCEPT !.read_cursor = @ + length,
                   !.item[key] = slice(r.input, r.read_cursor, r.read_cursor + length)]

item_num(r, key, nbytes) ==
    IF r.err # "" THEN r
    ELSE IF r.read_cursor + nbytes > Len(r.input) THEN raise(r, "SerializationError")
    ELSE [r EXCEPT !.read_cursor = @ + nbytes,
                   !.item[key] = unpack(slice(r.input, r.read_cursor, r.read_cursor + nbytes))]

\* the number after the byte 253, 254 or 255 of a compact size
size_num(r, nbytes) ==
    IF r.read_cursor + nbytes > Len(r.input) THEN raise(r, "SerializationError")
    ELSE [r EXCEPT !.read_cursor = @ + nbytes,
                   !.n = hex_to_int(slice(r.input, r.read_cursor, r.read_cursor + nbytes))]

\* n = vds.read_compact_size()
read_compact_size(r) ==
    IF r.err # "" THEN r
    ELSE IF r.read_cursor >= Len(r.input) THEN raise(r, "SerializationError")
    ELSE IF r.input[r.read_cursor + 1] = 253
      THEN size_num([r EXCEPT !.read_cursor = @ + 1], 2)
    ELSE IF r.input[r.read_cursor + 1] = 254
      THEN size_num([r EXCEPT !.read_cursor = @ + 1], 4)
    ELSE IF r.input[r.read_cursor + 1] = 255
      THEN size_num([r EXCEPT !.read_cursor = @ + 1], 8)
    ELSE [r EXCEPT !.read_cursor = @ + 1, !.n = r.input[r.read_cursor + 1]]

can_read_more(r) ==
    IF Len(r.input) = 0 THEN FALSE ELSE r.read_cursor < Len(r.input)

\* d[key] = vds.get_remains()
get_remains(r, key) ==
    IF r.err # "" THEN r
    ELSE [r EXCEPT !.d = set(@, key, slice(r.input, r.read_cursor, Len(r.input)))]

OP_PUSHDATA1 == 76
OP_PUSHDATA2 == 77
OP_PUSHDATA4 == 78
OP_1 == 81
OP_16 == 96
OP_EQUAL == 135
OP_EQUALVERIFY == 136
OP_DUP == 118
OP_HASH160 == 169
OP_CHECKSIG == 172

\* one step of script_GetOp at i: the bytes the opcode takes for the size of
\* its data, and that size (-1 for MalformedBitcoinScript)
size_bytes(opcode) ==
    IF opcode = OP_PUSHDATA1 THEN 1 ELSE IF opcode = OP_PUSHDATA2 THEN 2
    ELSE IF opcode = OP_PUSHDATA4 THEN 4 ELSE 0

nSize(bytes, i) ==
    IF size_bytes(bytes[i + 1]) = 0 THEN bytes[i + 1]
    ELSE IF i + 1 + size_bytes(bytes[i + 1]) > Len(bytes) THEN 0 - 1
    ELSE hex_to_int(slice(bytes, i + 1, i + 1 + size_bytes(bytes[i + 1])))

RECURSIVE script_GetOp(_, _)
\* the (opcode, vch) pairs from the byte at i on; an opcode of -1 stands for
\* MalformedBitcoinScript.  The data of a push may be short.
script_GetOp(bytes, i) ==
    IF i >= Len(bytes) THEN <<>>
    ELSE IF bytes[i + 1] > OP_PUSHDATA4
      THEN <<[opcode |-> bytes[i + 1], vch |-> <<>>]>> \o script_GetOp(bytes, i + 1)
    ELSE IF nSize(bytes, i) < 0 THEN <<[opcode |-> 0 - 1, vch |-> <<>>]>>
    ELSE <<[opcode |-> bytes[i + 1],
            vch |-> slice(bytes, i + 1 + size_bytes(bytes[i + 1]),
                          i + 1 + size_bytes(bytes[i + 1]) + nSize(bytes, i))]>>
           \o script_GetOp(bytes, i + 1 + size_bytes(bytes[i + 1]) + nSize(bytes, i))

\* an opcode to match, and OPPushDataGeneric(pushlen) with the lengths pushlen
\* accepts
Op(opcode) == [push |-> FALSE, opcode |-> opcode, lens |-> {}]
OPPushDataGeneric(lens) == [push |-> TRUE, opcode |-> 0 - 2, lens |-> lens]

match_decoded(decoded, to_match) ==
    /\ \A k \in 1..Len(decoded) : decoded[k].opcode >= 0
    /\ Len(decoded) = Len(to_match)
    /\ \A k \in 1..Len(decoded) :
          \/ to_match[k].push /\ decoded[k].opcode \in to_match[k].lens
          \/ to_match[k].opcode = decoded[k].opcode

\* ecc.ECPubkey.is_pubkey_bytes: a point of the curve in 33 or 65 bytes, known
\* here by its first byte
is_pubkey_bytes(b) ==
    \/ Len(b) = 33 /\ b[1] \in {2, 3}
    \/ Len(b) = 65 /\ b[1] = 4

\* the witness version of a script of OP_1..OP_16 and a push of 2..40 bytes
witver(decoded) ==
    IF Len(decoded) = 2 /\ decoded[1].opcode \in OP_1..OP_16
       /\ match_decoded(decoded, <<Op(decoded[1].opcode), OPPushDataGeneric(2..40)>>)
    THEN decoded[1].opcode - OP_1 + 1 ELSE 0

\* an address, a public key or a script in the place of an address, known by
\* what it holds
Address(kind, ver, data) == [kind |-> kind, witver |-> ver, data |-> data]

\* (type, address) of a decoded output script.  An address is known by what
\* it encodes: hash160_to_p2pkh, hash160_to_p2sh and hash_to_segwit_addr each
\* give an address that address_to_script turns back into the script.
address_of(_bytes, decoded) ==
    IF match_decoded(decoded, <<OPPushDataGeneric({33, 65}), Op(OP_CHECKSIG)>>)
       /\ is_pubkey_bytes(decoded[1].vch)
      THEN [type |-> "TYPE_PUBKEY", address |-> Address("pubkey", 0, decoded[1].vch)]
    ELSE IF match_decoded(decoded, <<Op(OP_DUP), Op(OP_HASH160), OPPushDataGeneric({20}),
                                     Op(OP_EQUALVERIFY), Op(OP_CHECKSIG)>>)
      THEN [type |-> "TYPE_ADDRESS", address |-> Address("p2pkh", 0, decoded[3].vch)]
    ELSE IF match_decoded(decoded, <<Op(OP_HASH160), OPPushDataGeneric({20}), Op(OP_EQUAL)>>)
      THEN [type |-> "TYPE_ADDRESS", address |-> Address("p2sh", 0, decoded[2].vch)]
    ELSE IF match_decoded(decoded, <<Op(0), OPPushDataGeneric({20, 32})>>)
      THEN [type |-> "TYPE_ADDRESS", address |-> Address("segwit", 0, decoded[2].vch)]
    ELSE IF witver(decoded) > 0
      THEN [type |-> "TYPE_ADDRESS", address |-> Address("segwit", witver(decoded), decoded[2].vch)]
    ELSE [type |-> "TYPE_SCRIPT", address |-> Address("script", 0, _bytes)]

get_address_from_output_script(_bytes) == address_of(_bytes, script_GetOp(_bytes, 0))

\* push_script(data) for data of fewer than 76 bytes
push_script(data) == <<Len(data)>> \o data

\* bitcoin.address_to_script(addr)
address_to_script(addr) ==
    IF addr.kind = "p2pkh"
      THEN <<OP_DUP, OP_HASH160>> \o push_script(addr.data) \o <<OP_EQUALVERIFY, OP_CHECKSIG>>
    ELSE IF addr.kind = "p2sh" THEN <<OP_HASH160>> \o push_script(addr.data) \o <<OP_EQUAL>>
    ELSE <<IF addr.witver = 0 THEN 0 ELSE addr.witver + OP_1 - 1>> \o push_script(addr.data)

pay_script(output_type, addr) ==
    IF output_type = "TYPE_SCRIPT" THEN addr.data
    ELSE IF output_type = "TYPE_ADDRESS" THEN address_to_script(addr)
    ELSE push_script(addr.data) \o <<OP_CHECKSIG>>

\* None where bytes may be, and the results that stand for an exception
NoneBytes == <<0 - 1>>
AttributeError == <<0 - 2>>
TypeError == <<0 - 3>>
IndexError == <<0 - 4>>

KOTO_NUM_JS_INPUTS == 2
KOTO_NUM_JS_OUTPUTS == 2
KOTO_NOTECIPHERTEXT_SIZE == 601
KOTO_SAPLING_ENCCIPHERTEXT_SIZE == 580
KOTO_SAPLING_OUTCIPHERTEXT_SIZE == 80
GROTH_PROOF_SIZE == 192

NoInput ==
    [prevout_hash |-> <<>>, prevout_n |-> <<>>, scriptSig |-> <<>>, sequence |-> <<>>,
     type |-> "", num_sig |-> 0, signed |-> 0, value |-> <<>>, preimage_script |-> NoneBytes,
     address |-> Address("", 0, <<>>)]
NoOutput ==
    [value |-> <<>>, type |-> "", address |-> Address("", 0, <<>>), scriptPubKey |-> <<>>,
     prevout_n |-> 0]
NoShieldedSpend ==
    [cv |-> <<>>, anchor |-> <<>>, nullifiers |-> <<>>, rk |-> <<>>, proof |-> <<>>,
     spendAuthSig |-> <<>>]
NoShieldedOutput ==
    [cv |-> <<>>, cm |-> <<>>, ephemeralKey |-> <<>>, encCiphertext |-> <<>>,
     outCiphertext |-> <<>>, proof |-> <<>>]
NoJSDescription ==
    [vpub_old |-> <<>>, vpub_new |-> <<>>, anchor |-> <<>>, nullifiers |-> <<>>,
     commitments |-> <<>>, ephemeralKey |-> <<>>, randomSeed |-> <<>>, macs |-> <<>>,
     proof |-> <<>>, ciphertexts |-> <<>>]

\* d = {} of a parse function
begin(r, item) == IF r.err # "" THEN r ELSE [r EXCEPT !.item = item]

\* the item parsed is the next of the list d[key]
return(r, key) == IF r.err # "" THEN r ELSE [r EXCEPT !.d[key] = Append(@, r.item)]

\* d[key] = vds.read_bytes(vds.read_compact_size())
item_sized(r, key) == item_bytes(r, key, r.n)

RECURSIVE item_list(_, _, _, _)
\* d[key] = [vds.read_bytes(length) for i in range(count)]
item_list(r, key, length, count) ==
    IF r.err # "" \/ count = 0 THEN r
    ELSE item_list([r EXCEPT !.read_cursor = @ + length,
                             !.item[key] = Append(@, slice(r.input, r.read_cursor,
                                                           r.read_cursor + length))],
                   key, length, count - 1)

\* parse_CompressedG1 (32 bytes of x) and parse_CompressedG2 (64), as the next
\* point of the proof
parse_Compressed(r, length) ==
    IF r.err # "" THEN r
    ELSE IF r.read_cursor + 1 > Len(r.input) THEN raise(r, "SerializationError")
    ELSE [r EXCEPT !.read_cursor = @ + 1 + length,
                   !.item.proof = Append(@, [y |-> r.input[r.read_cursor + 1] % 2,
                                             x |-> slice(r.input, r.read_cursor + 1,
                                                         r.read_cursor + 1 + length)])]

parse_PHGRProof(r) ==
    parse_Compressed(parse_Compressed(parse_Compressed(parse_Compressed(
    parse_Compressed(parse_Compressed(parse_Compressed(parse_Compressed(r, 32), 32), 64),
                     32), 32), 32), 32), 32)

parse_GrothProof(r) == item_bytes(r, "proof", GROTH_PROOF_SIZE)

\* the type of an input: parse_scriptSig, which full_parse adds for an input
\* with a script that is not of a coinbase, raises nothing and leaves the
\* four fields read as they are
typed(r) ==
    IF r.err # "" THEN r
    ELSE [r EXCEPT !.item.prevout_hash = Reverse(@),
                   !.item.type = IF r.item.prevout_hash = Zeros(32) THEN "coinbase"
                                 ELSE "unknown"]

parse_input(r) ==
    return(typed(item_num(item_sized(read_compact_size(
               item_num(item_bytes(begin(r, NoInput), "prevout_hash", 32), "prevout_n", 4)),
               "scriptSig"), "sequence", 4)), "inputs")

\* parse_output without the check of the limit
check_value_signed(r) ==
    IF r.err # "" THEN r
    ELSE IF negative(r.item.value) THEN raise(r, "SerializationError")
    ELSE r

\* the two checks of the value of an output
check_value(r) ==
    IF r.err # "" THEN r
    ELSE IF ~negative(r.item.value) /\ greater(r.item.value, TOTAL_COIN_SUPPLY_LIMIT)
      THEN raise(r, "SerializationError")
    ELSE IF negative(r.item.value) THEN raise(r, "SerializationError")
    ELSE r

addressed(r) ==
    IF r.err # "" THEN r
    ELSE [r EXCEPT !.item.type = get_address_from_output_script(r.item.scriptPubKey).type,
                   !.item.address = get_address_from_output_script(r.item.scriptPubKey).address,
                   !.item.prevout_n = Len(r.d.outputs)]

parse_output(r) ==
    return(addressed(item_sized(read_compact_size(
               check_value(item_num(begin(r, NoOutput), "value", 8))), "scriptPubKey")),
           "outputs")

parse_ShieldedSpend(r) ==
    return(item_bytes(parse_GrothProof(item_bytes(item_bytes(item_bytes(item_bytes(
               begin(r, NoShieldedSpend), "cv", 32), "anchor", 32), "nullifiers", 32),
               "rk", 32)), "spendAuthSig", 64), "shieldedSpend")

parse_ShieldedOutput(r) ==
    return(parse_GrothProof(item_bytes(item_bytes(item_bytes(item_bytes(item_bytes(
               begin(r, NoShieldedOutput), "cv", 32), "cm", 32), "ephemeralKey", 32),
               "encCiphertext", KOTO_SAPLING_ENCCIPHERTEXT_SIZE),
               "outCiphertext", KOTO_SAPLING_OUTCIPHERTEXT_SIZE)), "shieldedOutput")

JSProof(r, useGroth) == IF useGroth THEN parse_GrothProof(r) ELSE parse_PHGRProof(r)

parse_JSDescription(r, useGroth) ==
    return(item_list(JSProof(item_list(item_bytes(item_bytes(item_list(item_list(
               item_bytes(item_num(item_num(begin(r, NoJSDescription), "vpub_old", 8),
                                   "vpub_new", 8), "anchor", 32),
               "nullifiers", 32, KOTO_NUM_JS_INPUTS), "commitments", 32, KOTO_NUM_JS_OUTPUTS),
               "ephemeralKey", 32), "randomSeed", 32), "macs", 32, KOTO_NUM_JS_INPUTS),
               useGroth), "ciphertexts", KOTO_NOTECIPHERTEXT_SIZE, KOTO_NUM_JS_OUTPUTS),
           "joinSplits")

parse_item(r, key) ==
    IF key = "inputs" THEN parse_input(r)
    ELSE IF key = "outputs" THEN parse_output(r)
    ELSE IF key = "shieldedSpend" THEN parse_ShieldedSpend(r)
    ELSE IF key = "shieldedOutput" THEN parse_ShieldedOutput(r)
    ELSE parse_JSDescription(r, r.d.version >= 4)

RECURSIVE parse_items(_, _, _)
parse_items(r, key, count) ==
    IF r.err # "" \/ count = 0 THEN r
    ELSE parse_items(parse_item(r, key), key, count - 1)

\* d[key] = [parse(vds) for i in range(n)] for the n read last
parse_list(r, key) ==
    IF r.err # "" THEN r
    ELSE parse_items([r EXCEPT !.d = set(@, key, <<>>)], key, r.n)

\* header = vds.read_uint32(), d['overwintered'], d['version'], d['saplinged']
version_word(r) ==
    IF r.err # "" THEN r
    ELSE IF r.read_cursor + 4 > Len(r.input) THEN raise(r, "SerializationError")
    ELSE [r EXCEPT
            !.read_cursor = @ + 4,
            !.header = unpack(slice(r.input, r.read_cursor, r.read_cursor + 4)),
            !.d = [@ EXCEPT
                     !.keys = @ \cup {"overwintered", "version", "saplinged"},
                     !.overwintered = r.input[r.read_cursor + 4] >= 128,
                     !.version = hex_to_int(slice(r.input, r.read_cursor, r.read_cursor + 3))
                                   + 16777216 * (r.input[r.read_cursor + 4] % 128),
                     !.saplinged = hex_to_int(slice(r.input, r.read_cursor, r.read_cursor + 3))
                                   + 16777216 * (r.input[r.read_cursor + 4] % 128) >= 4]]

\* txin.get('sequence', 0xffffffff - 1)
sequence_of(txin) == IF txin.sequence = <<>> THEN <<65534, 65535>> ELSE txin.sequence

\* raw_bytes[:5] == PARTIAL_TXN_HEADER_MAGIC, the format version after it, and
\* vds.write(raw_bytes)
unframed(raw_bytes, force_full_parse) ==
    IF slice(raw_bytes, 0, 5) = PARTIAL_TXN_HEADER_MAGIC
      THEN IF Len(raw_bytes) < 6 THEN raise(BCDataStream(<<>>), "IndexError")
           ELSE IF raw_bytes[6] # 0 THEN raise(BCDataStream(<<>>), "SerializationError")
           ELSE [BCDataStream(slice(raw_bytes, 6, Len(raw_bytes))) EXCEPT
                   !.d = set(@, "partial", TRUE), !.full_parse = TRUE]
    ELSE [BCDataStream(raw_bytes) EXCEPT
            !.d = set(@, "partial", FALSE), !.full_parse = force_full_parse]

group_id(r) ==
    IF r.err = "" /\ r.d.version >= 3 THEN read_num(r, "versionGroupId", 4) ELSE r

segwit_ser(r) == IF r.err # "" THEN r ELSE [r EXCEPT !.d = set(@, "segwit_ser", 0)]

inputs_read(r) == parse_list(segwit_ser(read_compact_size(r)), "inputs")

outputs_read(r) == parse_list(read_compact_size(r), "outputs")

expiry(r) ==
    IF r.err = "" /\ r.d.version >= 3 THEN read_num(r, "expiryHeight", 4) ELSE r

\* n_ShieldedSpend = n and n_ShieldedOutput = n for the n read last
counted(r, key) == IF r.err # "" THEN r ELSE [r EXCEPT ![key] = r.n]

shielded(r) ==
    IF r.err = "" /\ r.d.version >= 4
      THEN parse_list(counted(read_compact_size(
             parse_list(counted(read_compact_size(
               read_num(get_remains(r, "saplingRaw"), "valueBalance", 8)),
               "n_ShieldedSpend"), "shieldedSpend")),
             "n_ShieldedOutput"), "shieldedOutput")
    ELSE r

n_JSDescs(r) == IF r.err # "" THEN r ELSE [r EXCEPT !.d = set(@, "n_JSDescs", r.n)]

join_split_keys(r) ==
    IF r.err = "" /\ r.d.n_JSDescs > 0
      THEN read_bytes(read_bytes(r, "joinSplitPubKey", 32), "joinSplitSig", 64)
    ELSE r

join_splits(r) ==
    IF r.err = "" /\ r.d.version >= 2
      THEN join_split_keys(parse_list(n_JSDescs(read_compact_size(
             get_remains(r, "joinSplitsRaw"))), "joinSplits"))
    ELSE r

\* deserialize reading bindingSig of every Sapling transaction
binding_sig_always(r) ==
    IF r.err = "" /\ r.d.version >= 4 THEN read_bytes(r, "bindingSig", 64) ELSE r

binding_sig(r) ==
    IF r.err = "" /\ r.d.version >= 4 /\ (r.n_ShieldedSpend # 0 \/ r.n_ShieldedOutput # 0)
      THEN read_bytes(r, "bindingSig", 64)
    ELSE r

junk(r) ==
    IF r.err = "" /\ can_read_more(r) THEN raise(r, "SerializationError") ELSE r

\* deserialize(raw, force_full_parse): the stream at the end, with d and the
\* exception raised
deserialize(raw, force_full_parse) ==
    junk(binding_sig(join_splits(shielded(expiry(read_num(outputs_read(inputs_read(
      group_id(version_word(unframed(raw, force_full_parse))))), "lockTime", 4))))))

OVERWINTER_VERSION_GROUP_ID == <<55664, 743>>
SAPLING_VERSION_GROUP_ID == <<58634, 36899>>

\* Transaction(raw, height) for a height before Overwinter ("sprout"), from
\* Overwinter on and from Sapling on
Transaction(raw, era, hgt) ==
    [raw |-> raw, inputs |-> <<>>, outputs |-> <<>>, parsed |-> FALSE,
     valueBalance |-> <<0, 0, 0, 0>>,
     version |-> IF era = "sprout" THEN 1 ELSE IF era = "overwinter" THEN 3 ELSE 4,
     overwintered |-> era # "sprout",
     saplinged |-> era = "sapling",
     versionGroupId |-> IF era = "sprout" THEN <<0, 0>>
                        ELSE IF era = "overwinter" THEN OVERWINTER_VERSION_GROUP_ID
                        ELSE SAPLING_VERSION_GROUP_ID,
     expiryHeight |-> IF era = "sprout" THEN <<0, 0>> ELSE as_words(hgt + 20, 4),
     joinsplitsraw |-> IF era = "sprout" THEN NoneBytes ELSE <<0>>,
     saplingraw |-> IF era = "sprout" THEN NoneBytes
                    ELSE IF era = "overwinter" THEN <<0>> ELSE Zeros(11),
     locktime |-> <<0, 0>>, is_partial_originally |-> TRUE, segwit_ser |-> 0 - 1]

\* TxOutput(type, address, value) of each output of d
TxOutputs(outputs) ==
    [k \in 1..Len(outputs) |-> [type |-> outputs[k].type, address |-> outputs[k].address,
                                value |-> outputs[k].value]]

\* Transaction.deserialize() with the d of deserialize(self.raw)
filled(tx, d) ==
    [tx EXCEPT
       !.parsed = TRUE,
       !.inputs = d.inputs,
       !.outputs = TxOutputs(d.outputs),
       !.locktime = d.lockTime,
       !.version = d.version,
       !.overwintered = d.overwintered,
       !.saplinged = d.saplinged,
       !.versionGroupId = IF d.version >= 3 THEN d.versionGroupId ELSE @,
       !.expiryHeight = IF d.version >= 3 THEN d.expiryHeight ELSE @,
       !.valueBalance = IF d.version >= 4 THEN d.valueBalance ELSE @,
       !.saplingraw = IF d.version >= 4 THEN d.saplingRaw ELSE @,
       !.joinsplitsraw = IF d.version >= 2 THEN d.joinSplitsRaw ELSE @,
       !.is_partial_originally = d.partial,
       !.segwit_ser = d.segwit_ser]

RECURSIVE bytes_less(_, _)
\* a < b for the hex of two byte strings
bytes_less(a, b) ==
    IF Len(b) = 0 THEN FALSE
    ELSE IF Len(a) = 0 THEN TRUE
    ELSE IF a[1] # b[1] THEN a[1] < b[1]
    ELSE bytes_less(Tail(a), Tail(b))

\* the keys of BIP69_sort: (prevout_hash, prevout_n) and (value, pay_script)
input_before(a, b) ==
    \/ bytes_less(a.prevout_hash, b.prevout_hash)
    \/ a.prevout_hash = b.prevout_hash /\ greater(b.prevout_n, a.prevout_n)

output_before(a, b) ==
    \/ greater(b.value, a.value)
    \/ a.value = b.value /\ bytes_less(pay_script(a.type, a.address),
                                        pay_script(b.type, b.address))

BIP69_sort(tx) ==
    [tx EXCEPT !.inputs = SortSeq(@, input_before), !.outputs = SortSeq(@, output_before)]

\* from_io(inputs, outputs, height, locktime, version), a version of 0 for
\* None
from_io(inputs, outputs, era, hgt, locktime, version) ==
    BIP69_sort([Transaction(NoneBytes, era, hgt) EXCEPT
                  !.parsed = TRUE, !.inputs = inputs, !.outputs = outputs,
                  !.locktime = locktime,
                  !.version = IF version # 0 THEN version ELSE @])

\* the version word written: version + 0x80000000 when overwintered
nVersion(tx) ==
    IF tx.overwintered
      THEN [little_endian(tx.version, 4) EXCEPT ![4] = (@ + 128) % 256]
    ELSE little_endian(tx.version, 4)

serialize_outpoint(txin) == Reverse(txin.prevout_hash) \o int_to_hex(txin.prevout_n)

\* serialize_input(txin, script) with withSig
serialize_input(txin, script) ==
    serialize_outpoint(txin) \o var_int(Len(script)) \o script
      \o int_to_hex(sequence_of(txin))

serialize_output(output) ==
    int_to_hex(output.value) \o var_int(Len(pay_script(output.type, output.address)))
      \o pay_script(output.type, output.address)

RECURSIVE join(_)
\* ''.join(parts)
join(parts) == IF Len(parts) = 0 THEN <<>> ELSE Head(parts) \o join(Tail(parts))

\* input_script(txin) of an input that is of a coinbase, complete with a
\* saved scriptSig, or of an unknown type
input_script(txin) == txin.scriptSig

txins(tx) ==
    var_int(Len(tx.inputs))
      \o join([k \in 1..Len(tx.inputs) |-> serialize_input(tx.inputs[k], input_script(tx.inputs[k]))])

txouts(tx) ==
    var_int(Len(tx.outputs))
      \o join([k \in 1..Len(tx.outputs) |-> serialize_output(tx.outputs[k])])

\* serialize_to_network without the return after saplingRaw
serialize_to_network_on(tx) ==
    IF tx.overwintered /\ tx.saplinged /\ tx.saplingraw = NoneBytes THEN AttributeError
    ELSE IF tx.version >= 2 /\ tx.joinsplitsraw = NoneBytes THEN AttributeError
    ELSE (IF tx.overwintered
            THEN nVersion(tx) \o int_to_hex(tx.versionGroupId) \o txins(tx) \o txouts(tx)
                   \o int_to_hex(tx.locktime) \o int_to_hex(tx.expiryHeight)
                   \o (IF tx.saplinged THEN tx.saplingraw ELSE <<>>)
          ELSE nVersion(tx) \o txins(tx) \o txouts(tx) \o int_to_hex(tx.locktime))
           \o (IF tx.version >= 2 THEN tx.joinsplitsraw ELSE <<>>)

\* serialize_to_network() of a transaction that is not serialized with
\* witnesses; AttributeError for the .hex() of None
serialize_to_network(tx) ==
    IF tx.overwintered /\ tx.saplinged
      THEN IF tx.saplingraw = NoneBytes THEN AttributeError
           ELSE nVersion(tx) \o int_to_hex(tx.versionGroupId) \o txins(tx) \o txouts(tx)
                  \o int_to_hex(tx.locktime) \o int_to_hex(tx.expiryHeight) \o tx.saplingraw
    ELSE IF tx.version >= 2 /\ tx.joinsplitsraw = NoneBytes THEN AttributeError
    ELSE (IF tx.overwintered
            THEN nVersion(tx) \o int_to_hex(tx.versionGroupId) \o txins(tx) \o txouts(tx)
                   \o int_to_hex(tx.locktime) \o int_to_hex(tx.expiryHeight)
          ELSE nVersion(tx) \o txins(tx) \o txouts(tx) \o int_to_hex(tx.locktime))
           \o (IF tx.version >= 2 THEN tx.joinsplitsraw ELSE <<>>)

\* the r and the s of signature_count()
RECURSIVE needed(_)
needed(inputs) ==
    IF Len(inputs) = 0 THEN 0
    ELSE (IF Head(inputs).type = "coinbase" THEN 0 ELSE Head(inputs).num_sig)
         + needed(Tail(inputs))

RECURSIVE signed(_)
signed(inputs) ==
    IF Len(inputs) = 0 THEN 0
    ELSE (IF Head(inputs).type = "coinbase" THEN 0 ELSE Head(inputs).signed)
         + signed(Tail(inputs))

is_complete(tx) == signed(tx.inputs) = needed(tx.inputs)

\* serialize()
serialize(tx) ==
    IF serialize_to_network(tx) = AttributeError THEN AttributeError
    ELSE IF tx.is_partial_originally /\ ~is_complete(tx)
      THEN PARTIAL_TXN_HEADER_MAGIC \o <<0>> \o serialize_to_network(tx)
    ELSE serialize_to_network(tx)

PREVOUTS_HASH_PERSON == 1
SEQUENCE_HASH_PERSON == 2
OUTPUTS_HASH_PERSON == 3

RECURSIVE byte_sum(_)
byte_sum(data) ==
    IF Len(data) = 0 THEN 0
    ELSE IF Len(data) = 1 THEN data[1]
    ELSE (byte_sum(SubSeq(data, 1, Len(data) \div 2))
          + 3 * byte_sum(SubSeq(data, Len(data) \div 2 + 1, Len(data)))) % 251

\* blake2b(digest_size=32, person=person) of data: 32 bytes that the person
\* and the data decide
blake2b(person, data) ==
    [k \in 1..32 |-> (64 * person + 5 * k + byte_sum(data) + Len(data)) % 256]

\* get_preimage_script(txin): the script the input carries, or that of its
\* address for p2pkh; TypeError for an input of an unknown type
get_preimage_script(txin) ==
    IF txin.preimage_script # NoneBytes THEN txin.preimage_script
    ELSE IF txin.type = "p2pkh" THEN address_to_script(txin.address)
    ELSE TypeError

\* serialize_preimage with nExpiryHeight before nLocktime
overwintered_preimage_swapped(tx, i) ==
    nVersion(tx) \o int_to_hex(tx.versionGroupId)
      \o blake2b(PREVOUTS_HASH_PERSON,
                 join([k \in 1..Len(tx.inputs) |-> serialize_outpoint(tx.inputs[k])]))
      \o blake2b(SEQUENCE_HASH_PERSON,
                 join([k \in 1..Len(tx.inputs) |-> int_to_hex(sequence_of(tx.inputs[k]))]))
      \o blake2b(OUTPUTS_HASH_PERSON,
                 join([k \in 1..Len(tx.outputs) |-> serialize_output(tx.outputs[k])]))
      \o Zeros(32)
      \o (IF tx.saplinged THEN Zeros(32) \o Zeros(32) ELSE <<>>)
      \o int_to_hex(tx.expiryHeight) \o int_to_hex(tx.locktime)
      \o (IF tx.saplinged THEN Zeros(8) ELSE <<>>)
      \o little_endian(1, 4)
      \o serialize_outpoint(tx.inputs[i + 1])
      \o var_int(Len(get_preimage_script(tx.inputs[i + 1])))
      \o get_preimage_script(tx.inputs[i + 1])
      \o int_to_hex(tx.inputs[i + 1].value)
      \o int_to_hex(sequence_of(tx.inputs[i + 1]))

\* the preimage of an overwintered transaction
overwintered_preimage(tx, i) ==
    nVersion(tx) \o int_to_hex(tx.versionGroupId)
      \o blake2b(PREVOUTS_HASH_PERSON,
                 join([k \in 1..Len(tx.inputs) |-> serialize_outpoint(tx.inputs[k])]))
      \o blake2b(SEQUENCE_HASH_PERSON,
                 join([k \in 1..Len(tx.inputs) |-> int_to_hex(sequence_of(tx.inputs[k]))]))
      \o blake2b(OUTPUTS_HASH_PERSON,
                 join([k \in 1..Len(tx.outputs) |-> serialize_output(tx.outputs[k])]))
      \o Zeros(32)
      \o (IF tx.saplinged THEN Zeros(32) \o Zeros(32) ELSE <<>>)
      \o int_to_hex(tx.locktime) \o int_to_hex(tx.expiryHeight)
      \o (IF tx.saplinged THEN Zeros(8) ELSE <<>>)
      \o little_endian(1, 4)
      \o serialize_outpoint(tx.inputs[i + 1])
      \o var_int(Len(get_preimage_script(tx.inputs[i + 1])))
      \o get_preimage_script(tx.inputs[i + 1])
      \o int_to_hex(tx.inputs[i + 1].value)
      \o int_to_hex(sequence_of(tx.inputs[i + 1]))

\* the preimage of a transaction that is not overwintered
legacy_preimage(tx, i) ==
    nVersion(tx)
      \o var_int(Len(tx.inputs))
      \o join([k \in 1..Len(tx.inputs) |->
                 serialize_input(tx.inputs[k],
                                 IF i = k - 1 THEN get_preimage_script(tx.inputs[k]) ELSE <<>>)])
      \o txouts(tx) \o int_to_hex(tx.locktime) \o little_endian(1, 4)

\* serialize_preimage(i); IndexError for an i that is no input, TypeError
\* from get_preimage_script
serialize_preimage(tx, i) ==
    IF i >= Len(tx.inputs) THEN IndexError
    ELSE IF tx.overwintered
      THEN IF get_preimage_script(tx.inputs[i + 1]) = TypeError THEN TypeError
           ELSE overwintered_preimage(tx, i)
    ELSE IF get_preimage_script(tx.inputs[i + 1]) = TypeError THEN TypeError
    ELSE legacy_preimage(tx, i)

(***************************************************************************)
(* The transactions the codec is run on: of the four formats, with none,   *)
(* one and two inputs and outputs, JoinSplits and shielded descriptions,   *)
(* each field filled with bytes of its own.                                *)
(***************************************************************************)
Fill(n, b) == [k \in 1..n |-> (b + k) % 256]

TxIn(hash, n, script, sequence) ==
    [NoInput EXCEPT !.prevout_hash = hash, !.prevout_n = n, !.scriptSig = script,
                    !.sequence = sequence,
                    !.type = IF hash = Zeros(32) THEN "coinbase" ELSE "unknown"]

InputLists ==
    {<<>>,
     <<TxIn(Fill(32, 10), <<1, 0>>, Fill(5, 20), <<65535, 65535>>)>>,
     <<TxIn(Fill(32, 40), <<0, 1>>, <<>>, <<65534, 65535>>),
       TxIn(Fill(32, 70), <<2, 0>>, Fill(107, 30), <<0, 0>>)>>,
     <<TxIn(Zeros(32), <<65535, 65535>>, Fill(4, 3), <<65535, 65535>>)>>}

P2PKH == <<OP_DUP, OP_HASH160, 20>> \o Fill(20, 60) \o <<OP_EQUALVERIFY, OP_CHECKSIG>>
P2SH == <<OP_HASH160, 20>> \o Fill(20, 90) \o <<OP_EQUAL>>
P2PK == <<33, 2>> \o Fill(32, 5) \o <<OP_CHECKSIG>>
P2WPKH == <<0, 20>> \o Fill(20, 120)
DataScript == <<106, 2, 1, 2>>
LongScript == <<OP_PUSHDATA2, 41, 1>> \o Fill(297, 1)

TxOut(value, script, n, type, address) ==
    [NoOutput EXCEPT !.value = value, !.scriptPubKey = script, !.prevout_n = n,
                     !.type = type, !.address = address]

OutputLists ==
    {<<>>,
     <<TxOut(<<1000, 0, 0, 0>>, P2PKH, 0, "TYPE_ADDRESS", Address("p2pkh", 0, Fill(20, 60)))>>,
     <<TxOut(<<0, 0, 0, 0>>, DataScript, 0, "TYPE_SCRIPT", Address("script", 0, DataScript)),
       TxOut(TOTAL_COIN_SUPPLY_LIMIT, P2SH, 1, "TYPE_ADDRESS", Address("p2sh", 0, Fill(20, 90)))>>,
     <<TxOut(<<0, 1, 0, 0>>, LongScript, 0, "TYPE_SCRIPT", Address("script", 0, LongScript)),
       TxOut(<<5, 0, 1, 0>>, P2PK, 1, "TYPE_PUBKEY", Address("pubkey", 0, <<2>> \o Fill(32, 5))),
       TxOut(<<7, 0, 0, 0>>, P2WPKH, 2, "TYPE_ADDRESS", Address("segwit", 0, Fill(20, 120)))>>}

ShieldedSpend ==
    [cv |-> Fill(32, 1), anchor |-> Fill(32, 2), nullifiers |-> Fill(32, 3),
     rk |-> Fill(32, 4), proof |-> Fill(GROTH_PROOF_SIZE, 5), spendAuthSig |-> Fill(64, 6)]

ShieldedOutput ==
    [cv |-> Fill(32, 11), cm |-> Fill(32, 12), ephemeralKey |-> Fill(32, 13),
     encCiphertext |-> Fill(KOTO_SAPLING_ENCCIPHERTEXT_SIZE, 14),
     outCiphertext |-> Fill(KOTO_SAPLING_OUTCIPHERTEXT_SIZE, 15),
     proof |-> Fill(GROTH_PROOF_SIZE, 16)]

PHGRProof ==
    <<[y |-> 0, x |-> Fill(32, 31)], [y |-> 1, x |-> Fill(32, 32)],
      [y |-> 1, x |-> Fill(64, 33)], [y |-> 0, x |-> Fill(32, 34)],
      [y |-> 0, x |-> Fill(32, 35)], [y |-> 1, x |-> Fill(32, 36)],
      [y |-> 0, x |-> Fill(32, 37)], [y |-> 1, x |-> Fill(32, 38)]>>

JSDescription(useGroth) ==
    [vpub_old |-> <<9, 0, 0, 0>>, vpub_new |-> <<0, 0, 0, 32768>>, anchor |-> Fill(32, 21),
     nullifiers |-> <<Fill(32, 22), Fill(32, 23)>>,
     commitments |-> <<Fill(32, 24), Fill(32, 25)>>,
     ephemeralKey |-> Fill(32, 26), randomSeed |-> Fill(32, 27),
     macs |-> <<Fill(32, 28), Fill(32, 29)>>,
     proof |-> IF useGroth THEN Fill(GROTH_PROOF_SIZE, 30) ELSE PHGRProof,
     ciphertexts |-> <<Fill(KOTO_NOTECIPHERTEXT_SIZE, 41), Fill(KOTO_NOTECIPHERTEXT_SIZE, 42)>>]

\* a transaction by its fields, as the wire format has them
Txs ==
    {[overwintered |-> version >= 3, version |-> version,
      versionGroupId |-> IF version = 3 THEN OVERWINTER_VERSION_GROUP_ID
                         ELSE SAPLING_VERSION_GROUP_ID,
      inputs |-> inputs, outputs |-> outputs, lockTime |-> lockTime,
      expiryHeight |-> <<lockTime[1], 0>>,
      valueBalance |-> IF version >= 4 /\ nSpend = 1 THEN <<65535, 65535, 65535, 65535>>
                       ELSE <<0, 0, 0, 0>>,
      shieldedSpend |-> IF version >= 4 /\ nSpend = 1 THEN <<ShieldedSpend>> ELSE <<>>,
      shieldedOutput |-> IF version >= 4 /\ nOutput = 1 THEN <<ShieldedOutput>> ELSE <<>>,
      joinSplits |-> IF version >= 2 /\ nJS = 1 THEN <<JSDescription(version >= 4)>> ELSE <<>>,
      joinSplitPubKey |-> Fill(32, 51), joinSplitSig |-> Fill(64, 52),
      bindingSig |-> Fill(64, 53)] :
       version \in 1..4, inputs \in InputLists, outputs \in OutputLists,
       lockTime \in {<<0, 0>>, <<41248, 7>>},
       nSpend \in 0..1, nOutput \in 0..1, nJS \in 0..1}

\* the bytes of a transaction on the wire: the version word with the
\* overwintered bit, the version group id from version 3, the inputs, the
\* outputs, lockTime, expiryHeight from version 3, the shielded section from
\* version 4, the JoinSplit section from version 2 and the binding signature
WireInput(txin) ==
    Reverse(txin.prevout_hash) \o int_to_hex(txin.prevout_n) \o var_int(Len(txin.scriptSig))
      \o txin.scriptSig \o int_to_hex(txin.sequence)

WireOutput(txout) ==
    int_to_hex(txout.value) \o var_int(Len(txout.scriptPubKey)) \o txout.scriptPubKey

WireSpend(sp) ==
    sp.cv \o sp.anchor \o sp.nullifiers \o sp.rk \o sp.proof \o sp.spendAuthSig

WireShieldedOutput(so) ==
    so.cv \o so.cm \o so.ephemeralKey \o so.encCiphertext \o so.outCiphertext \o so.proof

WireProof(proof, useGroth) ==
    IF useGroth THEN proof
    ELSE join([k \in 1..Len(proof) |-> <<2 + proof[k].y>> \o proof[k].x])

WireJS(js, useGroth) ==
    int_to_hex(js.vpub_old) \o int_to_hex(js.vpub_new) \o js.anchor \o join(js.nullifiers)
      \o join(js.commitments) \o js.ephemeralKey \o js.randomSeed \o join(js.macs)
      \o WireProof(js.proof, useGroth) \o join(js.ciphertexts)

WireShielded(t) ==
    int_to_hex(t.valueBalance)
      \o var_int(Len(t.shieldedSpend))
      \o join([k \in 1..Len(t.shieldedSpend) |-> WireSpend(t.shieldedSpend[k])])
      \o var_int(Len(t.shieldedOutput))
      \o join([k \in 1..Len(t.shieldedOutput) |-> WireShieldedOutput(t.shieldedOutput[k])])

WireJoinSplits(t) ==
    var_int(Len(t.joinSplits))
      \o join([k \in 1..Len(t.joinSplits) |-> WireJS(t.joinSplits[k], t.version >= 4)])
      \o (IF Len(t.joinSplits) > 0 THEN t.joinSplitPubKey \o t.joinSplitSig ELSE <<>>)

WireTail(t) ==
    (IF t.version >= 4 THEN WireShielded(t) ELSE <<>>)
      \o (IF t.version >= 2 THEN WireJoinSplits(t) ELSE <<>>)
      \o (IF t.version >= 4 /\ Len(t.shieldedSpend) + Len(t.shieldedOutput) > 0
          THEN t.bindingSig ELSE <<>>)

Wire(t) ==
    [little_endian(t.version, 4) EXCEPT ![4] = IF t.overwintered THEN 128 ELSE 0]
      \o (IF t.version >= 3 THEN int_to_hex(t.versionGroupId) ELSE <<>>)
      \o var_int(Len(t.inputs)) \o join([k \in 1..Len(t.inputs) |-> WireInput(t.inputs[k])])
      \o var_int(Len(t.outputs)) \o join([k \in 1..Len(t.outputs) |-> WireOutput(t.outputs[k])])
      \o int_to_hex(t.lockTime)
      \o (IF t.version >= 3 THEN int_to_hex(t.expiryHeight) ELSE <<>>)
      \o WireTail(t)

\* the keys of the d of a transaction
KeysOf(t) ==
    {"partial", "overwintered", "version", "saplinged", "segwit_ser", "inputs", "outputs",
     "lockTime"}
      \cup (IF t.version >= 3 THEN {"versionGroupId", "expiryHeight"} ELSE {})
      \cup (IF t.version >= 4
            THEN {"saplingRaw", "valueBalance", "shieldedSpend", "shieldedOutput"} ELSE {})
      \cup (IF t.version >= 2 THEN {"joinSplitsRaw", "n_JSDescs", "joinSplits"} ELSE {})
      \cup (IF t.version >= 2 /\ Len(t.joinSplits) > 0
            THEN {"joinSplitPubKey", "joinSplitSig"} ELSE {})
      \cup (IF t.version >= 4 /\ Len(t.shieldedSpend) + Len(t.shieldedOutput) > 0
            THEN {"bindingSig"} ELSE {})

\* the inputs of a wallet: signed, with the value spent and the script to
\* sign, given or that of the address
WalletIn(hash, n, script, sequence, type, value, preimage_script) ==
    [NoInput EXCEPT !.prevout_hash = hash, !.prevout_n = n, !.scriptSig = script,
                    !.sequence = sequence, !.type = type, !.num_sig = 1, !.signed = 1,
                    !.value = value, !.preimage_script = preimage_script,
                    !.address = Address("p2pkh", 0, Fill(20, 60))]

WalletInputLists ==
    {<<WalletIn(Fill(32, 10), <<1, 0>>, Fill(106, 20), <<65535, 65535>>, "p2pkh",
                <<1000, 0, 0, 0>>, NoneBytes)>>,
     <<WalletIn(Fill(32, 70), <<2, 0>>, Fill(106, 30), <<0, 0>>, "p2pkh",
                <<5, 0, 1, 0>>, P2PKH),
       WalletIn(Fill(32, 40), <<0, 1>>, Fill(72, 7), <<>>, "p2sh", <<0, 1, 0, 0>>, Fill(71, 8))>>}

Eras == {"sprout", "overwinter", "sapling"}

\* the transactions of a wallet, complete, of the version their height gives
WalletTxs ==
    {from_io(inputs, TxOutputs(outputs), era, 100, lockTime, 0) :
       inputs \in InputLists \cup WalletInputLists, outputs \in OutputLists, era \in Eras,
       lockTime \in {<<0, 0>>, <<41248, 7>>}}

\* values no output may have: negative ones and ones above the limit
BadValues ==
    {<<65535, 65535, 65535, 65535>>, <<0, 0, 0, 32768>>, <<16385, 23047, 30192, 7>>,
     <<0, 0, 0, 8>>, <<65535, 65535, 65535, 32767>>}

\* t with the value of its output k replaced
Revalued(t, k, value) == [t EXCEPT !.outputs[k].value = value]

Junk == {<<0>>, Fill(3, 200), Fill(64, 53)}

NoTx ==
    [fn |-> "", kind |-> "", t |-> <<>>, raw |-> <<>>, tx |-> <<>>, i |-> 0, done |-> FALSE,
     err |-> "", d |-> NoFields, out |-> <<>>, back |-> <<>>, out2 |-> <<>>]

DeserializeCalls ==
    {[NoTx EXCEPT !.fn = "deserialize", !.kind = "wire", !.t = t, !.raw = Wire(t)] : t \in Txs}
      \cup {[NoTx EXCEPT !.fn = "deserialize", !.kind = "junk", !.t = t,
                         !.raw = Wire(t) \o junk_bytes] :
              t \in {x \in Txs : x.lockTime = <<0, 0>> /\ Len(x.inputs) = 1},
              junk_bytes \in Junk}
      \cup {[NoTx EXCEPT !.fn = "deserialize", !.kind = "partial", !.t = t,
                         !.raw = PARTIAL_TXN_HEADER_MAGIC \o <<b>> \o Wire(t)] :
              t \in {x \in Txs : x.lockTime = <<0, 0>> /\ Len(x.inputs) # 1},
              b \in {0, 1, 255}}
      \cup {[NoTx EXCEPT !.fn = "deserialize", !.kind = "value", !.t = Revalued(t, k, value),
                         !.raw = Wire(Revalued(t, k, value))] :
              t \in {x \in Txs : x.lockTime = <<0, 0>> /\ Len(x.inputs) = 1
                                   /\ Len(x.outputs) = 2},
              k \in 1..2, value \in BadValues}
      \cup {[NoTx EXCEPT !.fn = "deserialize", !.kind = "cut", !.raw = raw] :
              raw \in {<<>>, <<1, 0>>, PARTIAL_TXN_HEADER_MAGIC, <<1, 0, 0, 0, 1>>,
                       <<1, 0, 0, 0, 0, 1, 1, 0, 0, 0, 0, 0, 0>>}}

RoundTripCalls ==
    {[NoTx EXCEPT !.fn = "round_trip", !.kind = "raw", !.t = t,
                  !.tx = Transaction(Wire(t), era, 100)] : t \in Txs, era \in Eras}
      \cup {[NoTx EXCEPT !.fn = "round_trip", !.kind = "from_io", !.tx = tx] : tx \in WalletTxs}

PreimageCalls ==
    {[NoTx EXCEPT !.fn = "serialize_preimage", !.tx = tx, !.i = i] :
       tx \in {x \in WalletTxs : Len(x.inputs) > 0 /\ x.inputs[1].num_sig = 1}, i \in 0..1}

InitTx ==
    /\ testnet = FALSE
    /\ StartWorld(InitWorld(Zeros(get_delta_bytes(max_checkpoint + 1) \div BLOCK)))
    /\ calc \in DeserializeCalls \cup RoundTripCalls \cup PreimageCalls

TxDone(new) ==
    /\ ~calc.done
    /\ calc' = [new EXCEPT !.done = TRUE]
    /\ UNCHANGED <<testnet, chains, files, blockchains, cache, last, ops, threads>>

\* deserialize(raw)
DeserializeTx ==
    /\ calc.fn = "deserialize"
    /\ TxDone([calc EXCEPT !.err = deserialize(calc.raw, FALSE).err,
                           !.d = deserialize(calc.raw, FALSE).d])

\* Transaction.deserialize(): nothing for a transaction without raw or with
\* its inputs set
deserialized(tx) ==
    IF tx.raw = NoneBytes \/ tx.parsed THEN tx
    ELSE filled(tx, deserialize(tx.raw, FALSE).d)

\* the transaction made of the bytes out, in the era of tx, after its
\* deserialize()
Reread(tx, out) ==
    filled([tx EXCEPT !.raw = out, !.parsed = FALSE], deserialize(out, FALSE).d)

\* tx.serialize() and Transaction(that).serialize()
SerializeTx ==
    /\ calc.fn = "round_trip"
    /\ TxDone([calc EXCEPT
                 !.tx = deserialized(calc.tx),
                 !.out = serialize(deserialized(calc.tx)),
                 !.err = deserialize(serialize(deserialized(calc.tx)), FALSE).err,
                 !.d = deserialize(serialize(deserialized(calc.tx)), FALSE).d,
                 !.back = Reread(calc.tx, serialize(deserialized(calc.tx))),
                 !.out2 = serialize(Reread(calc.tx, serialize(deserialized(calc.tx))))])

\* tx.serialize_preimage(i)
SerializePreimage ==
    /\ calc.fn = "serialize_preimage"
    /\ TxDone([calc EXCEPT !.out = serialize_preimage(calc.tx, calc.i)])

NextTx == DeserializeTx \/ SerializeTx \/ SerializePreimage

SpecTx == InitTx /\ [][NextTx]_vars

\* C35: deserialize fails with SerializationError when the value of an
\* output is negative or above TOTAL_COIN_SUPPLY_LIMIT_IN_BTC * COIN, when
\* bytes remain after the last field of the transaction, and when the bytes
\* start with the partial magic followed by a format version that is not 0.
C35_Rejected ==
    (calc.fn = "deserialize" /\ calc.done) =>
       /\ (/\ calc.kind \in {"wire", "value"}
           /\ \E k \in 1..Len(calc.t.outputs) :
                 \/ calc.t.outputs[k].value[4] >= 32768
                 \/ greater(calc.t.outputs[k].value, TOTAL_COIN_SUPPLY_LIMIT))
            => calc.err = "SerializationError"
       /\ (/\ calc.kind \in {"wire", "junk"}
           /\ Len(calc.raw) > Len(Wire(calc.t))
           /\ SubSeq(calc.raw, 1, Len(Wire(calc.t))) = Wire(calc.t))
            => calc.err = "SerializationError"
       /\ (/\ Len(calc.raw) >= 6
           /\ SubSeq(calc.raw, 1, 5) = PARTIAL_TXN_HEADER_MAGIC
           /\ calc.raw[6] # 0)
            => calc.err = "SerializationError"
       /\ calc.kind = "wire" => calc.err = ""

\* the 64 bytes added to a Sapling transaction without shielded parts, and
\* the value one above the limit, were refused
C35_JunkRefused ==
    /\ calc.fn = "deserialize" /\ calc.done
    /\ calc.kind = "junk"
    /\ calc.t.version = 4 /\ calc.t.shieldedSpend = <<>> /\ calc.t.shieldedOutput = <<>>
    /\ Len(calc.raw) = Len(Wire(calc.t)) + 64
    /\ calc.err = "SerializationError"

\* the fields of an input that are on the wire
Outpoints(inputs) ==
    [k \in 1..Len(inputs) |->
       [prevout_hash |-> inputs[k].prevout_hash, prevout_n |-> inputs[k].prevout_n,
        scriptSig |-> inputs[k].scriptSig, sequence |-> sequence_of(inputs[k])]]

C37_FieldOrder ==
    (calc.fn = "deserialize" /\ calc.done /\ calc.kind = "wire") =>
       /\ calc.err = ""
       /\ calc.d.keys = KeysOf(calc.t)
       /\ calc.d.overwintered = calc.t.overwintered
       /\ calc.d.version = calc.t.version
       /\ calc.d.inputs = calc.t.inputs
       /\ calc.d.outputs = calc.t.outputs
       /\ calc.d.lockTime = calc.t.lockTime
       /\ calc.t.version >= 3 => calc.d.expiryHeight = calc.t.expiryHeight
       /\ calc.t.version >= 4 =>
             /\ calc.d.valueBalance = calc.t.valueBalance
             /\ calc.d.shieldedSpend = calc.t.shieldedSpend
             /\ calc.d.shieldedOutput = calc.t.shieldedOutput
             /\ calc.d.saplingRaw = WireTail(calc.t)
       /\ calc.t.version >= 2 =>
             /\ calc.d.n_JSDescs = Len(calc.t.joinSplits)
             /\ calc.d.joinSplits = calc.t.joinSplits
       /\ (calc.t.version >= 2 /\ Len(calc.t.joinSplits) > 0) =>
             /\ calc.d.joinSplitPubKey = calc.t.joinSplitPubKey
             /\ calc.d.joinSplitSig = calc.t.joinSplitSig
       /\ "bindingSig" \in calc.d.keys => calc.d.bindingSig = calc.t.bindingSig

\* a Sapling transaction with a shielded output, a JoinSplit and an expiry
\* height was read, its binding signature last
C37_AllSections ==
    /\ calc.fn = "deserialize" /\ calc.done /\ calc.kind = "wire"
    /\ calc.d.version = 4 /\ calc.d.overwintered
    /\ Len(calc.d.shieldedOutput) = 1 /\ Len(calc.d.shieldedSpend) = 0
    /\ calc.d.n_JSDescs = 1
    /\ calc.d.expiryHeight = <<41248, 0>>
    /\ calc.d.bindingSig = Fill(64, 53)
    /\ calc.d.joinSplitSig = Fill(64, 52)

\* the bytes of out from offset a, length of them
At(out, a, length) == SubSeq(out, a + 1, a + length)

\* the bytes the shielded hashes and valueBalance add when saplinged
Sap(tx, length) == IF tx.saplinged THEN length ELSE 0

\* the input a preimage is for, and the script signed for it with its length
Signed(tx, i) == tx.inputs[i + 1]
ScriptCode(txin) ==
    var_int(Len(IF txin.preimage_script = NoneBytes THEN P2PKH ELSE txin.preimage_script))
      \o (IF txin.preimage_script = NoneBytes THEN P2PKH ELSE txin.preimage_script)

\* C38: the preimage of an overwintered transaction is nVersion with the top
\* bit set, nVersionGroupId, hashPrevouts, hashSequence, hashOutputs,
\* hashJoinSplits, nLocktime, nExpiryHeight, nHashType, the outpoint, the
\* scriptCode, the value and the sequence of input i in that order, with
\* hashShieldedSpends and hashShieldedOutputs after hashJoinSplits and
\* valueBalance after nExpiryHeight when and only when saplinged; that of
\* another transaction is nVersion, the inputs with the preimage script at
\* index i only, the outputs, nLocktime and nHashType.
C38_Preimage ==
    (calc.fn = "serialize_preimage" /\ calc.done /\ calc.i < Len(calc.tx.inputs)) =>
       /\ calc.tx.overwintered =>
            /\ At(calc.out, 0, 4) = <<calc.tx.version, 0, 0, 128>>
            /\ At(calc.out, 4, 4) = int_to_hex(calc.tx.versionGroupId)
            /\ At(calc.out, 8, 32)
                 = blake2b(PREVOUTS_HASH_PERSON,
                           join([k \in 1..Len(calc.tx.inputs) |->
                                   Reverse(calc.tx.inputs[k].prevout_hash)
                                     \o int_to_hex(calc.tx.inputs[k].prevout_n)]))
            /\ At(calc.out, 40, 32)
                 = blake2b(SEQUENCE_HASH_PERSON,
                           join([k \in 1..Len(calc.tx.inputs) |->
                                   int_to_hex(sequence_of(calc.tx.inputs[k]))]))
            /\ At(calc.out, 72, 32)
                 = blake2b(OUTPUTS_HASH_PERSON,
                           join([k \in 1..Len(calc.tx.outputs) |->
                                   serialize_output(calc.tx.outputs[k])]))
            /\ At(calc.out, 136 + Sap(calc.tx, 64), 4) = int_to_hex(calc.tx.locktime)
            /\ At(calc.out, 140 + Sap(calc.tx, 64), 4) = int_to_hex(calc.tx.expiryHeight)
            /\ At(calc.out, 144 + Sap(calc.tx, 72), 4) = <<1, 0, 0, 0>>
            /\ At(calc.out, 148 + Sap(calc.tx, 72), 36)
                 = Reverse(Signed(calc.tx, calc.i).prevout_hash)
                     \o int_to_hex(Signed(calc.tx, calc.i).prevout_n)
            /\ At(calc.out, 184 + Sap(calc.tx, 72), Len(ScriptCode(Signed(calc.tx, calc.i))))
                 = ScriptCode(Signed(calc.tx, calc.i))
            /\ At(calc.out, 184 + Sap(calc.tx, 72) + Len(ScriptCode(Signed(calc.tx, calc.i))), 12)
                 = int_to_hex(Signed(calc.tx, calc.i).value)
                     \o int_to_hex(sequence_of(Signed(calc.tx, calc.i)))
            /\ Len(calc.out) = 196 + Sap(calc.tx, 72) + Len(ScriptCode(Signed(calc.tx, calc.i)))
       /\ ~calc.tx.overwintered =>
            calc.out = <<calc.tx.version, 0, 0, 0>>
                         \o var_int(Len(calc.tx.inputs))
                         \o join([k \in 1..Len(calc.tx.inputs) |->
                                    Reverse(calc.tx.inputs[k].prevout_hash)
                                      \o int_to_hex(calc.tx.inputs[k].prevout_n)
                                      \o (IF k = calc.i + 1
                                          THEN ScriptCode(calc.tx.inputs[k]) ELSE <<0>>)
                                      \o int_to_hex(sequence_of(calc.tx.inputs[k]))])
                         \o var_int(Len(calc.tx.outputs))
                         \o join([k \in 1..Len(calc.tx.outputs) |->
                                    serialize_output(calc.tx.outputs[k])])
                         \o int_to_hex(calc.tx.locktime) \o <<1, 0, 0, 0>>

\* the preimage for the second input of a Sapling transaction, whose
\* inputs and outputs from_io has sorted, has been made
C38_SaplingSecond ==
    /\ calc.fn = "serialize_preimage" /\ calc.done
    /\ calc.tx.saplinged /\ calc.tx.overwintered
    /\ calc.i = 1 /\ Len(calc.tx.inputs) = 2
    /\ calc.tx.inputs[1].sequence = <<>>
    /\ calc.tx.inputs[2].prevout_n = <<2, 0>>
    /\ Len(calc.tx.outputs) = 3
    /\ calc.tx.outputs[1].value = <<7, 0, 0, 0>>
    /\ calc.tx.locktime = <<41248, 7>>
    /\ Len(calc.out) = 196 + 72 + 26

====
